---- MODULE Spec2Model ----
(***************************************************************************)
(* ClareIA: audio transcription and meeting-summary client.                *)
(*                                                                         *)
(* Summary extractor (app/core/summarizer.py): one invocation of           *)
(* summarize_transcript is a small state machine                           *)
(*     idle -> primary -> (returned | retry) -> (returned | raised)        *)
(* driven by what the chat API answers on the primary call (with the       *)
(* JSON-object constraint) and on the retry call (without it).             *)
(*                                                                         *)
(* Strings that the code measures or slices (the transcript text, the chat *)
(* content, the summary) are sequences of characters/tokens; optional      *)
(* strings that are only passed along (model, title, extra context) are    *)
(* TLA+ strings with None for Python's None.  A temperature is an integer  *)
(* number of tenths (0.2 is 2); an optional temperature is <<>> for None   *)
(* and <<t>> for a given value.                                            *)
(***************************************************************************)
EXTENDS Integers, Sequences, FiniteSets, TLC

VARIABLES
    settings_instance,  \* SettingsManager._instance: <<>> (None) or <<the Settings record>>
    client_cache,       \* lru_cache of get_openai_client: <<>> or <<handle>>
    pc,                 \* position of the current summarize_transcript invocation
    args,               \* the keyword arguments of the current invocation, as given
    model,              \* local: model after line 29
    temperature,        \* local: temperature after line 30
    text,               \* local: text after line 32 (the transcript, given as a str)
    user_prompt,        \* local: user_prompt after line 65
    calls,              \* requests sent to client.chat.completions.create, in order
    content,            \* local: content of the response being processed
    e,                  \* exception bound by the outer handler (line 104)
    summary,            \* local: summary, the MeetingSummary being returned
    fallback_error,     \* exception bound by the inner handler (line 138)
    raised,             \* exception that escaped the invocation
    primary_embeds,     \* history: the primary content was an object wrapped in prose
    primary_outcome,    \* history: "strict", "embedded" or "failed", what the primary call gave
    upstream,           \* what a deterministic chat API has answered: <<request, response>> pairs
    history,            \* the finished invocations: their arguments and outcomes
    t_pc,               \* position of the current transcribe_file invocation
    t_args,             \* transcribe_file: the arguments, as given
    t_locals,           \* transcribe_file: model, language, response_format, params
    t_trace,            \* transcribe_file: the checks and outside calls made, in order
    t_result,           \* transcribe_file: <<>> or <<result of the transcription API>>
    t_transcript,       \* transcribe_file: <<>> or <<the Transcript returned>>
    t_raised,           \* transcribe_file: <<>> or <<the exception that reached the caller>>
    parse_log,          \* a content and what each parsing tier made of it
    environ,            \* os.environ when app.core.config is imported, and from then on
    session_state,      \* st.session_state: each key absent (<<>>) or <<its value>>
    w_pc,               \* web: the handler the script run is in
    w_local,            \* web: the locals of that handler
    w_message,          \* web: the last st.success / st.error shown by a handler
    uploads,            \* web: the uploaded files saved so far
    summary_of,         \* history: the transcript the stored summary was generated from
    disk,               \* the files written: path -> [raw, json], what read and json.load give
    persist,            \* save_transcript: the last call and the exception it raised
    cli                 \* main of app/cli.py: position, arguments, exit code

\* the state of summarize_transcript and of the process-wide caches
svars == <<settings_instance, client_cache, pc, args, model, temperature, text,
           user_prompt, calls, content, e, summary, fallback_error, raised,
           primary_embeds, primary_outcome>>

\* the state of transcribe_file
tvars == <<t_pc, t_args, t_locals, t_trace, t_result, t_transcript, t_raised>>

\* the state outside summarize_transcript and transcribe_file
wvars == <<session_state, w_pc, w_local, w_message, uploads, summary_of>>

\* the files and the state of the command line
dvars == <<disk, persist, cli>>

ovars == <<parse_log, environ, wvars, dvars>>

vars == <<svars, upstream, history, tvars, ovars>>

None == "None"

(***************************************************************************)
(* Bounds of the model.                                                    *)
(***************************************************************************)
\* longest chat content, in tokens
MaxContentLen == 4
\* invocations in a row against a deterministic chat API
MaxInvocations == 3
\* longest list of segment entries in a verbose_json result
MaxSegments == 2
\* longest content given to the two parsing tiers, in tokens
MaxParseLen == 5
\* uploaded files one web session saves
MaxUploads == 2

(***************************************************************************)
(* Program constants.                                                      *)
(***************************************************************************)
SummaryPreviewLen == 500
MaxTokens == 4000
\* os.getenv("SUMMARY_TEMPERATURE", "0.2"), in tenths
DefaultSummaryTemperature == 2
\* bounds of validate_temperature, in tenths: max(0.0, min(1.0, temp))
TempLow == 0
TempHigh == 10

Min(a, b) == IF a < b THEN a ELSE b
Max(a, b) == IF a > b THEN a ELSE b

(***************************************************************************)
(* Settings (app/core/config.py) with no environment override.             *)
(***************************************************************************)
validate_temperature(v) == Max(TempLow, Min(TempHigh, v))

\* os.getenv(name, default)
getenv(name, default) == IF environ[name] = None THEN default ELSE environ[name]

\* an environment that sets the credential and nothing else
DefaultEnviron == [OPENAI_API_KEY |-> "sk-test", TRANSCRIBE_LANGUAGE |-> None]

\* st.session_state with no key
EmptySession ==
    [transcript |-> <<>>, summary |-> <<>>, processing_time |-> <<>>,
     summary_time |-> <<>>, audio_path |-> <<>>]

Settings ==
    [ openai_api_key |-> getenv("OPENAI_API_KEY", ""),
      default_transcribe_model |-> <<"gpt-4o-mini-transcribe">>,
      default_language |-> getenv("TRANSCRIBE_LANGUAGE", "pt"),
      default_response_format |-> "json",
      summary_model |-> "gpt-4o-mini",
      summary_temperature |-> validate_temperature(DefaultSummaryTemperature) ]

\* SettingsManager.get_instance: the instance after the call
get_instance(inst) == IF inst = <<>> THEN <<Settings>> ELSE inst

\* OpenAI(api_key=settings.openai_api_key, ...): the serial-th handle the
\* process constructs
OpenAI(serial) ==
    [api_key |-> get_instance(settings_instance)[1].openai_api_key, serial |-> serial]

\* get_openai_client without the cache: every call constructs a handle
get_openai_client_uncached(cache) ==
    <<OpenAI((IF cache = <<>> THEN 0 ELSE cache[1].serial) + 1)>>

\* get_openai_client under lru_cache(maxsize=1): the cache after the call
get_openai_client(cache) == IF cache = <<>> THEN <<OpenAI(1)>> ELSE cache

(***************************************************************************)
(* Chat content.  A content is a sequence of tokens:                       *)
(*   "{" "}"  the braces;                                                  *)
(*   "s"      the member  "summary": "ok";                                 *)
(*   "e"      the member  "summary": "";                                   *)
(*   "w"      a word of prose (no brace in it, not JSON);                  *)
(*   "[" "]"  the brackets of a JSON array.                                *)
(* Separators between members and values are part of the tokens.           *)
(***************************************************************************)
Token == {"{", "}", "s", "e", "w"}
MemberToken == {"s", "e"}
ArrayToken == {"[", "]"}

RECURSIVE SeqsUpTo(_, _)
SeqsUpTo(S, n) ==
    IF n = 0 THEN {<<>>}
    ELSE LET shorter == SeqsUpTo(S, n - 1)
         IN  shorter \cup {Append(q, x) : q \in {r \in shorter : Len(r) = n - 1}, x \in S}

Contents == SeqsUpTo(Token, MaxContentLen)

\* the JSON object of a member list: a later member overrides an earlier one
RECURSIVE object_of(_)
object_of(members) ==
    IF members = <<>> THEN <<>>
    ELSE LET rest == object_of(SubSeq(members, 1, Len(members) - 1))
             m == members[Len(members)]
             others(k) == SelectSeq(rest, LAMBDA kv: kv[1] # k)
         IN  CASE m = "s" -> Append(others("summary"), <<"summary", <<"o", "k">> >>)
               [] m = "e" -> Append(others("summary"), <<"summary", <<>> >>)

\* c is one JSON object: "{", members, "}"
is_json_object(c) ==
    /\ Len(c) >= 2
    /\ c[1] = "{"
    /\ c[Len(c)] = "}"
    /\ \A i \in 2..(Len(c) - 1) : c[i] \in MemberToken

\* c is a run of JSON values, each an object or an array "[", values, "]"
RECURSIVE is_json_values(_)
is_json_values(c) ==
    \/ c = <<>>
    \/ \E k \in 1..Len(c) :
          /\ \/ is_json_object(SubSeq(c, 1, k))
             \/ /\ k >= 2
                /\ c[1] = "["
                /\ c[k] = "]"
                /\ is_json_values(SubSeq(c, 2, k - 1))
          /\ is_json_values(SubSeq(c, k + 1, Len(c)))

is_json_array(c) ==
    /\ Len(c) >= 2
    /\ c[1] = "["
    /\ c[Len(c)] = "]"
    /\ is_json_values(SubSeq(c, 2, Len(c) - 1))

\* json.loads: [ok, kind, value]; the whole input must be one JSON value. The
\* value of an object is its members; a list has no members to look up
json_loads(c) ==
    IF is_json_object(c)
    THEN [ok |-> TRUE, kind |-> "dict", value |-> object_of(SubSeq(c, 2, Len(c) - 1))]
    ELSE IF is_json_array(c)
    THEN [ok |-> TRUE, kind |-> "list", value |-> <<>>]
    ELSE [ok |-> FALSE]

\* re.search(r"\{.*\}", content, re.DOTALL): <<>> for no match, else <<match.group()>>;
\* the greedy pattern spans the first "{" to the last "}"
re_search_braces(c) ==
    LET opens == {i \in 1..Len(c) : c[i] = "{"}
        closes == {i \in 1..Len(c) : c[i] = "}"}
        first == CHOOSE i \in opens : \A j \in opens : i <= j
        last == CHOOSE i \in closes : \A j \in closes : j <= i
    IN  IF opens # {} /\ closes # {} /\ first < last
        THEN <<SubSeq(c, first, last)>>
        ELSE <<>>

(***************************************************************************)
(* MeetingSummary (app/models/summary.py).                                 *)
(***************************************************************************)
HasKey(obj, k) == \E i \in 1..Len(obj) : obj[i][1] = k
Get(obj, k) == obj[CHOOSE i \in 1..Len(obj) : obj[i][1] = k][2]

\* model_validate with title required as well
model_validate_requiring_title(parsed) ==
    IF HasKey(parsed, "summary") /\ HasKey(parsed, "title")
    THEN [ok |-> TRUE,
          value |-> [ title |-> Get(parsed, "title"),
                      summary |-> Get(parsed, "summary"),
                      key_points |-> <<>>,
                      decisions |-> <<>>,
                      action_items |-> <<>>,
                      insights |-> <<>> ]]
    ELSE [ok |-> FALSE]

\* model_validate with no field required
model_validate_requiring_nothing(parsed) ==
    [ok |-> TRUE,
     value |-> [ title |-> IF HasKey(parsed, "title") THEN Get(parsed, "title") ELSE None,
                 summary |-> IF HasKey(parsed, "summary") THEN Get(parsed, "summary") ELSE <<>>,
                 key_points |-> <<>>,
                 decisions |-> <<>>,
                 action_items |-> <<>>,
                 insights |-> <<>> ]]

\* MeetingSummary.model_validate: [ok, value]; `summary` is the one required field
model_validate(parsed) ==
    IF HasKey(parsed, "summary")
    THEN [ok |-> TRUE,
          value |-> [ title |-> IF HasKey(parsed, "title") THEN Get(parsed, "title") ELSE None,
                      summary |-> Get(parsed, "summary"),
                      key_points |-> <<>>,
                      decisions |-> <<>>,
                      action_items |-> <<>>,
                      insights |-> <<>> ]]
    ELSE [ok |-> FALSE]

\* fallback_summary with the budget test off by one
fallback_summary_off_by_one(txt) ==
    [ title |-> "Transcrição Processada",
      summary |-> IF Len(txt) >= SummaryPreviewLen
                  THEN SubSeq(txt, 1, SummaryPreviewLen) \o <<".", ".", ".">>
                  ELSE txt,
      key_points |-> <<"Não foi possível extrair pontos principais automaticamente">>,
      decisions |-> <<>>,
      action_items |-> <<>>,
      insights |-> <<"Revise a transcrição manualmente para extrair insights">> ]

\* the synthesized summary of the last fallback (lines 130-137)
fallback_summary(txt) ==
    [ title |-> "Transcrição Processada",
      summary |-> IF Len(txt) > SummaryPreviewLen
                  THEN SubSeq(txt, 1, SummaryPreviewLen) \o <<".", ".", ".">>
                  ELSE txt,
      key_points |-> <<"Não foi possível extrair pontos principais automaticamente">>,
      decisions |-> <<>>,
      action_items |-> <<>>,
      insights |-> <<"Revise a transcrição manualmente para extrair insights">> ]

(***************************************************************************)
(* The two parsing tiers of summarize_transcript.  Each yields             *)
(*   [ok |-> TRUE, value |-> MeetingSummary]  or  [ok |-> FALSE, error]    *)
(***************************************************************************)
\* parse_primary without the search for a brace-delimited substring
parse_primary_strict_only(c) ==
    LET strict == json_loads(c)
        v == model_validate(strict.value)
    IN  IF ~strict.ok
        THEN [ok |-> FALSE, error |-> "ValueError: Resposta não contém JSON válido"]
        ELSE IF v.ok THEN v ELSE [ok |-> FALSE, error |-> "ValidationError"]

\* lines 83-102: strict parse, then the brace-delimited substring, then validation
parse_primary(c) ==
    LET strict == json_loads(c)
        m == re_search_braces(c)
        loose == json_loads(m[1])
        validated(parsed) ==
            LET v == model_validate(parsed)
            IN  IF v.ok THEN v ELSE [ok |-> FALSE, error |-> "ValidationError"]
    IN  IF strict.ok THEN validated(strict.value)
        ELSE IF m = <<>>
             THEN [ok |-> FALSE, error |-> "ValueError: Resposta não contém JSON válido"]
        ELSE IF ~loose.ok
             THEN [ok |-> FALSE, error |-> "ValueError: Não foi possível extrair JSON válido"]
        ELSE validated(loose.value)

\* lines 118-137: the brace-delimited substring only; no match gives the basic summary
parse_retry(c, txt) ==
    LET m == re_search_braces(c)
        loose == json_loads(m[1])
        v == model_validate(loose.value)
    IN  IF m = <<>> THEN [ok |-> TRUE, value |-> fallback_summary(txt)]
        ELSE IF ~loose.ok THEN [ok |-> FALSE, error |-> "JSONDecodeError"]
        ELSE IF ~v.ok THEN [ok |-> FALSE, error |-> "ValidationError"]
        ELSE v

(***************************************************************************)
(* Requests to the chat API.                                               *)
(***************************************************************************)
SystemPrompt == "Você é um assistente especialista em reuniões corporativas. ..."

\* truthiness of an optional string
Truthy(s) == s # None /\ s # ""

\* lines 58-65
build_user_prompt(extra_context, txt) ==
    <<"Transcrição em português do Brasil abaixo. ...">>
    \o (IF Truthy(extra_context) THEN <<"Contexto adicional:", extra_context>> ELSE <<>>)
    \o <<"Transcript:">> \o txt

messages(prompt) ==
    << [role |-> "system", content |-> SystemPrompt],
       [role |-> "user", content |-> prompt] >>

\* lines 71-77
primary_request(mdl, prompt, temp) ==
    [ model |-> mdl,
      messages |-> messages(prompt),
      temperature |-> temp,
      response_format |-> [type |-> "json_object"],
      max_tokens |-> MaxTokens ]

\* retry_request that keeps the JSON-object constraint
retry_request_constrained(mdl, prompt, temp) ==
    [ model |-> mdl,
      messages |-> messages(prompt),
      temperature |-> temp,
      response_format |-> [type |-> "json_object"],
      max_tokens |-> MaxTokens ]

\* retry_request with half the token budget
retry_request_smaller_budget(mdl, prompt, temp) ==
    [ model |-> mdl,
      messages |-> messages(prompt),
      temperature |-> temp,
      max_tokens |-> MaxTokens \div 2 ]

\* lines 111-116
retry_request(mdl, prompt, temp) ==
    [ model |-> mdl,
      messages |-> messages(prompt),
      temperature |-> temp,
      max_tokens |-> MaxTokens ]

(***************************************************************************)
(* Inputs explored.                                                        *)
(***************************************************************************)
MkText(n) == [i \in 1..n |-> IF i % 2 = 1 THEN "a" ELSE "b"]
TextLens == {0, 1, SummaryPreviewLen, SummaryPreviewLen + 1}
Texts == {MkText(n) : n \in TextLens}
Models == {None, "gpt-4o"}
Temperatures == {<<>>, <<-10>>, <<5>>, <<50>>}
ExtraContexts == {None, "", "pauta"}

\* what one call of client.chat.completions.create can do
Responses == {[raises |-> TRUE]} \cup {[raises |-> FALSE, content |-> c] : c \in Contents}

(***************************************************************************)
(* summarize_transcript, step by step.                                     *)
(***************************************************************************)
SummarizerInit ==
    /\ settings_instance = <<>>
    /\ client_cache = <<>>
    /\ pc = "idle"
    /\ args = <<>>
    /\ model = None
    /\ temperature = <<>>
    /\ text = <<>>
    /\ user_prompt = <<>>
    /\ calls = <<>>
    /\ content = <<>>
    /\ e = None
    /\ summary = <<>>
    /\ fallback_error = None
    /\ raised = None
    /\ primary_embeds = FALSE
    /\ primary_outcome = "none"

TranscriberInit ==
    /\ t_pc = "idle"
    /\ t_args = <<>>
    /\ t_locals = <<>>
    /\ t_trace = <<>>
    /\ t_result = <<>>
    /\ t_transcript = <<>>
    /\ t_raised = <<>>

WebInit ==
    /\ session_state = EmptySession
    /\ w_pc = "idle"
    /\ w_local = <<>>
    /\ w_message = None
    /\ uploads = 0
    /\ summary_of = <<>>

DiskInit ==
    /\ disk = <<>>
    /\ persist = <<>>
    /\ cli = [pc |-> "idle"]

OutsideInit ==
    /\ parse_log = <<>>
    /\ environ = DefaultEnviron
    /\ WebInit
    /\ DiskInit

Init ==
    /\ SummarizerInit
    /\ upstream = {}
    /\ history = <<>>
    /\ TranscriberInit
    /\ OutsideInit

\* Invoke that writes the resolved model back into the shared settings
Invoke_writing_settings(transcript, mdl, temp, extra_context) ==
    /\ pc = "idle"
    /\ model' = IF Truthy(mdl) THEN mdl ELSE get_instance(settings_instance)[1].summary_model
    /\ settings_instance' =
          <<[get_instance(settings_instance)[1] EXCEPT !.summary_model = model']>>
    /\ client_cache' = get_openai_client(client_cache)
    /\ args' = [model |-> mdl, temperature |-> temp, extra_context |-> extra_context]
    /\ temperature' = IF temp = <<>>
                      THEN settings_instance'[1].summary_temperature
                      ELSE temp[1]
    /\ text' = transcript
    /\ user_prompt' = build_user_prompt(extra_context, transcript)
    /\ calls' = <<>>
    /\ content' = <<>>
    /\ e' = None
    /\ summary' = <<>>
    /\ fallback_error' = None
    /\ raised' = None
    /\ primary_embeds' = FALSE
    /\ primary_outcome' = "none"
    /\ pc' = "primary"

\* lines 26-67: settings and client are obtained, the locals are computed
Invoke(transcript, mdl, temp, extra_context) ==
    /\ pc = "idle"
    /\ settings_instance' = get_instance(settings_instance)
    /\ client_cache' = get_openai_client(client_cache)
    /\ args' = [model |-> mdl, temperature |-> temp, extra_context |-> extra_context]
    /\ model' = IF Truthy(mdl) THEN mdl ELSE settings_instance'[1].summary_model
    /\ temperature' = IF temp = <<>>
                      THEN settings_instance'[1].summary_temperature
                      ELSE temp[1]
    /\ text' = transcript
    /\ user_prompt' = build_user_prompt(extra_context, transcript)
    /\ calls' = <<>>
    /\ content' = <<>>
    /\ e' = None
    /\ summary' = <<>>
    /\ fallback_error' = None
    /\ raised' = None
    /\ primary_embeds' = FALSE
    /\ primary_outcome' = "none"
    /\ pc' = "primary"

\* the object embedded in content c between positions i and j, with prose
\* around it: the first "{" and the last "}" delimit a JSON object that
\* validates as a MeetingSummary, and c is more than that object
Embeds(c, i, j) ==
    /\ i < j
    /\ i > 1 \/ j < Len(c)
    /\ c[i] = "{"
    /\ c[j] = "}"
    /\ \A k \in 1..(i - 1) : c[k] # "{"
    /\ \A k \in (j + 1)..Len(c) : c[k] # "}"
    /\ \A k \in (i + 1)..(j - 1) : c[k] \in MemberToken
    /\ \E k \in (i + 1)..(j - 1) : c[k] \in {"s", "e"}

\* the summary text of the object between positions i and j: its last summary member
EmbeddedSummaryText(c, i, j) ==
    LET last == CHOOSE k \in (i + 1)..(j - 1) :
                    /\ c[k] \in {"s", "e"}
                    /\ \A m \in (k + 1)..(j - 1) : c[m] \notin {"s", "e"}
    IN  IF c[last] = "s" THEN <<"o", "k">> ELSE <<>>

\* the content is not an object as a whole but wraps one in prose
wraps_object(c) == \E i, j \in 1..Len(c) : Embeds(c, i, j)

\* what the primary call gave: "raised"; "strict", content that is a JSON object
\* with a summary; "embedded", such an object wrapped in prose; "invalid", a
\* JSON object, whole or wrapped, without a summary; "unparseable", the rest
classify_primary(resp) ==
    IF resp.raises THEN "raised"
    ELSE LET c == resp.content
             opens == {i \in 1..Len(c) : c[i] = "{"}
             closes == {i \in 1..Len(c) : c[i] = "}"}
             inner == SubSeq(c, CHOOSE i \in opens : \A j \in opens : i <= j,
                                CHOOSE i \in closes : \A j \in closes : j <= i)
             has_summary(o) == \E k \in 1..Len(o) : o[k] \in {"s", "e"}
         IN  IF is_json_object(c) THEN (IF has_summary(c) THEN "strict" ELSE "invalid")
             ELSE IF opens = {} \/ closes = {} THEN "unparseable"
             ELSE IF ~is_json_object(inner) THEN "unparseable"
             ELSE IF has_summary(inner) THEN "embedded" ELSE "invalid"

\* the outcomes of the primary call that are failures of the primary tier
PrimaryFailures == {"raised", "unparseable", "invalid"}

\* lines 69-104: the primary call and the parsing of its content
PrimaryCall(resp) ==
    /\ pc = "primary"
    /\ calls' = Append(calls, primary_request(model, user_prompt, temperature))
    /\ primary_embeds' = (~resp.raises /\ wraps_object(resp.content))
    /\ primary_outcome' = IF classify_primary(resp) \in PrimaryFailures
                          THEN "failed"
                          ELSE classify_primary(resp)
    /\ IF resp.raises
       THEN /\ e' = "APIError"
            /\ pc' = "retry"
            /\ UNCHANGED <<content, summary>>
       ELSE LET r == parse_primary(resp.content)
            IN  IF r.ok
                THEN /\ content' = resp.content
                     /\ summary' = r.value
                     /\ pc' = "returned"
                     /\ UNCHANGED e
                ELSE \* the handler does not read content before line 118 overwrites it
                     /\ e' = r.error
                     /\ pc' = "retry"
                     /\ UNCHANGED <<content, summary>>
    /\ UNCHANGED <<settings_instance, client_cache, args, model, temperature,
                   text, user_prompt, fallback_error, raised>>

\* lines 104-140: the call without response_format and the parsing of its content
RetryCall(resp) ==
    /\ pc = "retry"
    /\ calls' = Append(calls, retry_request(model, user_prompt, temperature))
    /\ IF resp.raises
       THEN /\ fallback_error' = "APIError"
            /\ raised' = "ValueError: Não foi possível gerar o resumo"
            /\ pc' = "raised"
            /\ UNCHANGED <<content, summary, e>>
       ELSE LET r == parse_retry(resp.content, text)
            IN  /\ content' = resp.content
                /\ IF r.ok
                   THEN \* the handler is left: its name e is unbound again
                        /\ summary' = r.value
                        /\ e' = None
                        /\ pc' = "returned"
                        /\ UNCHANGED <<fallback_error, raised>>
                   ELSE /\ fallback_error' = r.error
                        /\ raised' = "ValueError: Não foi possível gerar o resumo"
                        /\ pc' = "raised"
                        /\ UNCHANGED <<summary, e>>
    /\ UNCHANGED <<settings_instance, client_cache, args, model, temperature,
                   text, user_prompt, primary_embeds, primary_outcome>>

\* the call is over: its locals are gone, the caches stay
Finish ==
    /\ pc \in {"returned", "raised"}
    /\ pc' = "idle"
    /\ args' = <<>>
    /\ model' = None
    /\ temperature' = <<>>
    /\ text' = <<>>
    /\ user_prompt' = <<>>
    /\ calls' = <<>>
    /\ content' = <<>>
    /\ e' = None
    /\ summary' = <<>>
    /\ fallback_error' = None
    /\ raised' = None
    /\ primary_embeds' = FALSE
    /\ primary_outcome' = "none"
    /\ UNCHANGED <<settings_instance, client_cache>>

Next ==
    \/ /\ pc = "idle"
       /\ \E transcript \in Texts, mdl \in Models, temp \in Temperatures,
             extra_context \in ExtraContexts :
               Invoke(transcript, mdl, temp, extra_context)
       /\ UNCHANGED <<upstream, history, tvars, ovars>>
    \/ /\ pc = "primary"
       /\ \E resp \in Responses : PrimaryCall(resp)
       /\ UNCHANGED <<upstream, history, tvars, ovars>>
    \/ /\ pc = "retry"
       /\ \E resp \in Responses : RetryCall(resp)
       /\ UNCHANGED <<upstream, history, tvars, ovars>>
    \/ /\ Finish
       /\ UNCHANGED <<upstream, history, tvars, ovars>>

Spec == Init /\ [][Next]_vars

(***************************************************************************)
(* Invocations in a row against a chat API whose answer is a function of   *)
(* the request only: the first answer to a request is free, and the same   *)
(* request gets the same answer from then on.                              *)
(***************************************************************************)
IdemTexts == {MkText(0), MkText(1)}
IdemContents == {<<"w">>, <<"{", "s", "}">>, <<"{", "}">>}
IdemResponses ==
    {[raises |-> TRUE]} \cup {[raises |-> FALSE, content |-> c] : c \in IdemContents}

Answers(req, resp) ==
    /\ \A p \in upstream : p[1] = req => p[2] = resp
    /\ upstream' = upstream \cup {<<req, resp>>}

Outcome ==
    [ kind |-> pc,
      summary |-> IF pc = "returned" THEN <<summary>> ELSE <<>>,
      raised |-> raised ]

IdemInvoke ==
    /\ pc = "idle"
    /\ Len(history) < MaxInvocations
    /\ \E transcript \in IdemTexts, mdl \in Models :
          Invoke(transcript, mdl, <<>>, None)
    /\ UNCHANGED <<upstream, history, tvars, ovars>>

IdemPrimaryCall ==
    /\ pc = "primary"
    /\ \E resp \in IdemResponses :
          /\ PrimaryCall(resp)
          /\ Answers(primary_request(model, user_prompt, temperature), resp)
    /\ UNCHANGED <<history, tvars, ovars>>

IdemRetryCall ==
    /\ pc = "retry"
    /\ \E resp \in IdemResponses :
          /\ RetryCall(resp)
          /\ Answers(retry_request(model, user_prompt, temperature), resp)
    /\ UNCHANGED <<history, tvars, ovars>>

IdemFinish ==
    /\ Finish
    /\ history' = Append(history, [text |-> text, args |-> args, outcome |-> Outcome])
    /\ UNCHANGED <<upstream, tvars, ovars>>

IdemNext == IdemInvoke \/ IdemPrimaryCall \/ IdemRetryCall \/ IdemFinish

SpecIdem == Init /\ [][IdemNext]_vars

(***************************************************************************)
(* Transcriber (app/core/transcriber.py).                                  *)
(*                                                                         *)
(* A file path is [stem, suffix], suffix being Path.suffix ("" for none).  *)
(* A transcription model name is a sequence of chunks, so that startswith  *)
(* is a test on its first chunk; <<>> is None (and "", equally falsy).     *)
(***************************************************************************)
SUPPORTED_EXTS == {".mp3", ".wav", ".m4a"}
SUPPORTED_MIMES ==
    {"audio/mpeg", "audio/wav", "audio/x-wav", "audio/mp4", "audio/x-m4a", "video/mp4"}

\* str.lower on the strings of the model
Lower(str) ==
    CASE str = ".MP3" -> ".mp3"
      [] str = ".Wav" -> ".wav"
      [] str = "GPT-4o-Mini-Transcribe" -> "gpt-4o-mini-transcribe"
      [] str = "Whisper" -> "whisper"
      [] str = ".TXT" -> ".txt"
      [] str = "NaN" -> "nan"
      [] str = "NULL" -> "null"
      [] OTHER -> str

\* str.strip on the strings of the model
Strip(str) ==
    CASE str = "   " -> ""
      [] str = " nomes " -> "nomes"
      [] str = " NaN " -> "NaN"
      [] str = " 2.5 " -> "2.5"
      [] OTHER -> str

\* mimetypes.guess_type with the three add_type mappings; the extension is
\* looked up as written and then in lower case
detect_mime(file_path) ==
    LET ext == Lower(file_path.suffix)
    IN  CASE ext = ".m4a" -> "audio/mp4"
          [] ext = ".mp3" -> "audio/mpeg"
          [] ext = ".wav" -> "audio/wav"
          [] ext = ".mp4" -> "video/mp4"
          [] ext = ".ogg" -> "audio/ogg"
          [] ext = ".txt" -> "text/plain"
          [] OTHER -> "application/octet-stream"

\* _ensure_audio with the extension compared as written and no MIME test
ensure_audio_case_sensitive(file_path, is_file) ==
    IF ~is_file
    THEN <<[type |-> "FileNotFoundError", path |-> file_path]>>
    ELSE IF file_path.suffix \in SUPPORTED_EXTS
         THEN <<>>
         ELSE <<[type |-> "ValueError", mime |-> detect_mime(file_path),
                 path |-> file_path]>>

\* _ensure_audio: <<>>, or <<the exception raised>>
ensure_audio(file_path, is_file) ==
    IF ~is_file
    THEN <<[type |-> "FileNotFoundError", path |-> file_path]>>
    ELSE IF Lower(file_path.suffix) \in SUPPORTED_EXTS
            \/ detect_mime(file_path) \in SUPPORTED_MIMES
         THEN <<>>
         ELSE <<[type |-> "ValueError", mime |-> detect_mime(file_path),
                 path |-> file_path]>>

is_gpt4o_transcribe(mdl) == mdl # <<>> /\ Lower(mdl[1]) = "gpt-4o-mini-transcribe"

is_whisper_model(mdl) == mdl # <<>> /\ Lower(mdl[1]) = "whisper"

\* _validate_model_and_format with the whisper branch as narrow as the others
validate_model_and_format_narrow_whisper(mdl, response_format) ==
    IF response_format \notin {"json", "text"}
    THEN <<[type |-> "ValueError", model |-> mdl, format |-> response_format,
            hint |-> IF is_whisper_model(mdl) /\ ~is_gpt4o_transcribe(mdl)
                     THEN None ELSE "whisper-1"]>>
    ELSE <<>>

\* _validate_model_and_format: <<>>, or <<the exception raised>>
validate_model_and_format(mdl, response_format) ==
    IF is_gpt4o_transcribe(mdl)
    THEN IF response_format \notin {"json", "text"}
         THEN <<[type |-> "ValueError", model |-> mdl, format |-> response_format,
                 hint |-> "whisper-1"]>>
         ELSE <<>>
    ELSE IF is_whisper_model(mdl)
    THEN IF response_format \notin {"text", "json", "verbose_json", "srt", "vtt"}
         THEN <<[type |-> "ValueError", model |-> mdl, format |-> response_format,
                 hint |-> None]>>
         ELSE <<>>
    ELSE IF response_format \notin {"json", "text"}
         THEN <<[type |-> "ValueError", model |-> mdl, format |-> response_format,
                 hint |-> "whisper-1"]>>
         ELSE <<>>

(***************************************************************************)
(* Python values, one tagged record per type.  A number is held in tenths. *)
(* A dict holds a function from its keys to values; an object holds its    *)
(* attributes (its __dict__), the fields its conversion methods give, and, *)
(* per conversion method, what calling it does: "absent", "raises", "dict" *)
(* (the fields), "other" (a value that is no dict) and, for the method     *)
(* model_dump_json, "list" (JSON text of a list).                          *)
(***************************************************************************)
PyNone == [k |-> "none"]
PyStr(x) == [k |-> "str", s |-> x]
PyNum(x) == [k |-> "num", n |-> x]
PyList(xs) == [k |-> "list", items |-> xs]
PyDict(f) == [k |-> "dict", d |-> f]
PyObj(attrs, fields, conv) == [k |-> "obj", attrs |-> attrs, fields |-> fields, conv |-> conv]

\* the dict with no entries
EmptyDict == PyDict(<<>>)

\* bool(v)
PyTruthy(v) ==
    CASE v.k = "none" -> FALSE
      [] v.k = "str" -> v.s # ""
      [] v.k = "num" -> v.n # 0
      [] v.k = "list" -> v.items # <<>>
      [] v.k = "dict" -> DOMAIN v.d # {}
      [] OTHER -> TRUE

\* v or default
Or(v, default) == IF PyTruthy(v) THEN v ELSE default

\* d.get(key, default) on the entries of a dict
DictGet(f, key, default) == IF key \in DOMAIN f THEN f[key] ELSE default

\* str(v): a str is itself, anything else is its printed form
Str(v) == IF v.k = "str" THEN v ELSE [k |-> "repr", of |-> v]

\* float(str) on the strings of the model: [ok, n], ValueError otherwise
Float(str) ==
    CASE str = "0" -> [ok |-> TRUE, n |-> 0]
      [] str = "2.5" -> [ok |-> TRUE, n |-> 25]
      [] OTHER -> [ok |-> FALSE]

(***************************************************************************)
(* Transcript and TranscriptSegment (app/models/transcript.py).            *)
(* An optional field is <<>> when None and <<x>> when it holds x.          *)
(***************************************************************************)
\* validate_timestamps that gives up on every str
validate_timestamps_numbers_only(v) ==
    CASE v.k = "num" -> v
      [] OTHER -> PyNone

\* TranscriptSegment.validate_timestamps: None or a float
validate_timestamps(v) ==
    CASE v.k = "none" -> PyNone
      [] v.k = "num" -> v
      [] v.k = "str" ->
            LET cleaned == Strip(v.s)
            IN  IF cleaned = "" \/ Lower(cleaned) \in {"none", "null", "nan"}
                THEN PyNone
                ELSE IF Float(cleaned).ok THEN PyNum(Float(cleaned).n) ELSE PyNone
      [] OTHER -> PyNone

\* TranscriptSegment(start=, end=, text=): [ok, value]; text must be a str
TranscriptSegment(start, end, txt) ==
    IF txt.k = "str"
    THEN [ok |-> TRUE,
          value |-> [start |-> validate_timestamps(start), end |-> validate_timestamps(end),
                     text |-> txt, speaker |-> PyNone]]
    ELSE [ok |-> FALSE]

\* Transcript(text=, language=, segments=, source_path=) on validated fields
Transcript(txt, language, segments, source_path) ==
    [text |-> txt, language |-> language, segments |-> segments,
     source_path |-> source_path]

\* from_verbose_json, lines 49-77: [ok, value]; not ok when an exception leaves
\* the loop, which is when the handler of line 64 raises in its turn
RECURSIVE verbose_segments(_)
verbose_segments(raw) ==
    IF raw = <<>> THEN [ok |-> TRUE, value |-> <<>>]
    ELSE LET before == verbose_segments(SubSeq(raw, 1, Len(raw) - 1))
             seg == raw[Len(raw)]
         IN  IF ~before.ok THEN before
             ELSE IF seg.k # "dict" THEN [ok |-> FALSE]
             ELSE LET first == TranscriptSegment(DictGet(seg.d, "start", PyNone),
                                                 DictGet(seg.d, "end", PyNone),
                                                 Or(DictGet(seg.d, "text", PyNone), PyStr("")))
                      second == TranscriptSegment(PyNone, PyNone,
                                                  DictGet(seg.d, "text", PyStr("")))
                  IN  IF first.ok THEN [ok |-> TRUE, value |-> Append(before.value, first.value)]
                      ELSE IF second.ok
                      THEN [ok |-> TRUE, value |-> Append(before.value, second.value)]
                      ELSE [ok |-> FALSE]

\* from_verbose_json with an empty list of segments kept as it is
from_verbose_json_keeping_empty(data, fallback_language, source_path) ==
    IF data.k # "dict" THEN [ok |-> FALSE]
    ELSE LET txt == Or(DictGet(data.d, "text", PyNone), PyStr(""))
             lang == Or(DictGet(data.d, "language", PyNone), PyStr(fallback_language))
             raw_segments == Or(DictGet(data.d, "segments", PyNone), PyList(<<>>))
             segments == IF raw_segments.k = "list" THEN verbose_segments(raw_segments.items)
                         ELSE [ok |-> FALSE]
             handler == LET t == DictGet(data.d, "text", PyStr("Erro no processamento"))
                        IN  IF t.k = "str"
                            THEN [ok |-> TRUE,
                                  value |-> Transcript(t, fallback_language, <<>>, source_path)]
                            ELSE [ok |-> FALSE]
         IN  IF segments.ok /\ txt.k = "str" /\ lang.k = "str"
             THEN [ok |-> TRUE,
                   value |-> Transcript(txt, lang.s, <<segments.value>>, source_path)]
             ELSE handler

\* Transcript.from_verbose_json: [ok, value]; not ok when the handler of line 81
\* raises in its turn
from_verbose_json(data, fallback_language, source_path) ==
    IF data.k # "dict" THEN [ok |-> FALSE]
    ELSE LET txt == Or(DictGet(data.d, "text", PyNone), PyStr(""))
             lang == Or(DictGet(data.d, "language", PyNone), PyStr(fallback_language))
             raw_segments == Or(DictGet(data.d, "segments", PyNone), PyList(<<>>))
             \* a value that is no list cannot be iterated, or yields no mappings
             segments == IF raw_segments.k = "list" THEN verbose_segments(raw_segments.items)
                         ELSE [ok |-> FALSE]
             handler == LET t == DictGet(data.d, "text", PyStr("Erro no processamento"))
                        IN  IF t.k = "str"
                            THEN [ok |-> TRUE,
                                  value |-> Transcript(t, fallback_language, <<>>, source_path)]
                            ELSE [ok |-> FALSE]
         IN  IF segments.ok /\ txt.k = "str" /\ lang.k = "str"
             THEN [ok |-> TRUE,
                   value |-> Transcript(txt, lang.s,
                                        IF segments.value = <<>> THEN <<>>
                                        ELSE <<segments.value>>,
                                        source_path)]
             ELSE handler

(***************************************************************************)
(* Normalisation of the API result (app/core/transcriber.py).              *)
(***************************************************************************)
ConversionMethods == <<"to_dict", "model_dump", "dict">>

\* lines 111-119: the first of to_dict, model_dump, dict that returns a dict
RECURSIVE first_dict_method(_, _)
first_dict_method(obj, i) ==
    IF i > Len(ConversionMethods) THEN <<>>
    ELSE IF obj.conv[ConversionMethods[i]] = "dict" THEN <<PyDict(obj.fields)>>
    ELSE first_dict_method(obj, i + 1)

\* _convert_result_to_dict; only an object has the methods or a __dict__
convert_result_to_dict(obj) ==
    IF obj.k # "obj" THEN EmptyDict
    ELSE IF first_dict_method(obj, 1) # <<>> THEN first_dict_method(obj, 1)[1]
    ELSE IF obj.conv.model_dump_json = "dict" THEN PyDict(obj.fields)
    ELSE IF obj.conv.model_dump_json = "list" THEN PyList(<<>>)
    ELSE PyDict(obj.attrs)

\* getattr(result, "text", None)
getattr_text(result) ==
    IF result.k = "obj" THEN DictGet(result.attrs, "text", PyNone) ELSE PyNone

\* lines 162-166: the handler of _process_transcription_result
process_fallback(result, language, file_path) ==
    Transcript(IF PyTruthy(result) THEN Str(result) ELSE PyStr("Erro na transcrição"),
               language, <<>>, file_path)

\* _process_transcription_result
process_transcription_result(result, response_format, language, file_path) ==
    IF response_format = "verbose_json"
    THEN LET r == from_verbose_json(convert_result_to_dict(result), language, file_path)
         IN  IF r.ok THEN r.value ELSE process_fallback(result, language, file_path)
    ELSE LET attr == getattr_text(result)
             data == convert_result_to_dict(result)
             text_value == IF attr.k = "str" THEN attr
                           ELSE Or(DictGet(data.d, "text", PyNone), PyStr(""))
         IN  IF attr.k # "str" /\ data.k # "dict"
             THEN process_fallback(result, language, file_path)
             ELSE IF text_value.k = "str"
             THEN Transcript(text_value, language, <<>>, file_path)
             ELSE process_fallback(result, language, file_path)

FilePaths == {[stem |-> "reuniao", suffix |-> x] :
                 x \in {".mp3", ".MP3", ".wav", ".m4a", ".mp4", ".ogg", ".txt", ""}}
TranscribeModels ==
    { <<>>, <<"gpt-4o-mini-transcribe">>, <<"GPT-4o-Mini-Transcribe", "-2025-03">>,
      <<"whisper", "-1">>, <<"gpt-4o-transcribe">> }
Languages == {None, "en"}
ResponseFormats == {None, "text", "json", "verbose_json", "srt", "vtt", "xml"}
Prompts == {None, "   ", " nomes "}
\* how an object of the SDK converts: to_dict returns its fields
SdkConv == [to_dict |-> "dict", model_dump |-> "dict", dict |-> "dict",
            model_dump_json |-> "dict"]

\* an object of the SDK: its attributes are its fields
SdkObj(fields) == PyObj(fields, fields, SdkConv)

TranscriptionResults ==
    { SdkObj([text |-> PyStr("bom dia a todos")]),
      SdkObj([text |-> PyStr("")]),
      SdkObj([text |-> PyStr("bom dia"), language |-> PyStr("pt"),
              segments |-> PyList(<< PyDict([start |-> PyNum(0), end |-> PyNum(25),
                                             text |-> PyStr("bom dia")]) >>)]) }

\* what client.audio.transcriptions.create may raise
ApiErrors == {"APIConnectionError", "TypeError: must be real number, not str"}
TranscriptionResponses ==
    {[raises |-> TRUE, error |-> x] : x \in ApiErrors}
        \cup {[raises |-> FALSE, result |-> r] : r \in TranscriptionResults}

Event(op, ok) == [op |-> op, ok |-> ok]

\* the operation raised err
RaisedEvent(op, err) == [op |-> op, ok |-> FALSE, error |-> err]

\* T_EnsureAudio with the client obtained at the top of the function
T_EnsureAudio_client_first(file_path, mdl, language, response_format, prompt, is_file) ==
    /\ t_pc = "idle"
    /\ settings_instance' = get_instance(settings_instance)
    /\ client_cache' = get_openai_client(client_cache)
    /\ t_args' = [file_path |-> file_path, model |-> mdl, language |-> language,
                  response_format |-> response_format, prompt |-> prompt]
    /\ LET err == ensure_audio(file_path, is_file)
       IN  /\ t_trace' = <<Event("get_openai_client", TRUE)>> \o
                         (IF is_file
                          THEN <<Event("is_file", TRUE), Event("ext_or_mime", err = <<>>)>>
                          ELSE <<Event("is_file", FALSE)>>)
           /\ t_raised' = err
           /\ t_pc' = IF err = <<>> THEN "audio_ok" ELSE "raised"
    /\ t_locals' = <<>>
    /\ t_result' = <<>>
    /\ t_transcript' = <<>>

\* lines 178-179: settings, then _ensure_audio (is_file is what Path.is_file answers)
T_EnsureAudio(file_path, mdl, language, response_format, prompt, is_file) ==
    /\ t_pc = "idle"
    /\ settings_instance' = get_instance(settings_instance)
    /\ t_args' = [file_path |-> file_path, model |-> mdl, language |-> language,
                  response_format |-> response_format, prompt |-> prompt]
    /\ LET err == ensure_audio(file_path, is_file)
       IN  /\ t_trace' = IF is_file
                         THEN <<Event("is_file", TRUE), Event("ext_or_mime", err = <<>>)>>
                         ELSE <<Event("is_file", FALSE)>>
           /\ t_raised' = err
           /\ t_pc' = IF err = <<>> THEN "audio_ok" ELSE "raised"
    /\ t_locals' = <<>>
    /\ t_result' = <<>>
    /\ t_transcript' = <<>>
    /\ UNCHANGED client_cache

\* lines 181-193: the defaults, then _validate_model_and_format
T_ValidateModelFormat ==
    /\ t_pc = "audio_ok"
    /\ LET mdl == IF t_args.model # <<>> THEN t_args.model
                  ELSE settings_instance[1].default_transcribe_model
           language == IF Truthy(t_args.language) THEN t_args.language
                       ELSE settings_instance[1].default_language
           response_format == IF Truthy(t_args.response_format) THEN t_args.response_format
                              ELSE settings_instance[1].default_response_format
           err == validate_model_and_format(mdl, response_format)
       IN  /\ t_locals' = [model |-> mdl, language |-> language,
                           response_format |-> response_format]
           /\ t_trace' = Append(t_trace, Event("model_and_format", err = <<>>))
           /\ t_raised' = err
           /\ t_pc' = IF err = <<>> THEN "validated" ELSE "raised"
    /\ UNCHANGED <<settings_instance, client_cache, t_args, t_result, t_transcript>>

\* line 195
T_GetClient ==
    /\ t_pc = "validated"
    /\ client_cache' = get_openai_client(client_cache)
    /\ t_trace' = Append(t_trace, Event("get_openai_client", TRUE))
    /\ t_pc' = "client"
    /\ UNCHANGED <<settings_instance, t_args, t_locals, t_result, t_transcript, t_raised>>

\* lines 201-211
transcription_params(locals, file_path, prompt) ==
    LET base == [model |-> locals.model, file |-> file_path, language |-> locals.language]
        with_prompt == IF Truthy(prompt) /\ Strip(prompt) # ""
                       THEN ("prompt" :> Strip(prompt)) @@ base
                       ELSE base
    IN  IF Truthy(locals.response_format)
        THEN ("response_format" :> locals.response_format) @@ with_prompt
        ELSE with_prompt

\* T_ApiCall with a failed call degraded to a best-effort Transcript
T_ApiCall_degrading(open_ok, resp) ==
    /\ t_pc = "client"
    /\ IF ~open_ok
       THEN /\ t_trace' = Append(t_trace, Event("open", FALSE))
            /\ t_raised' = <<[type |-> "OSError"]>>
            /\ t_pc' = "raised"
            /\ UNCHANGED <<t_locals, t_result, t_transcript>>
       ELSE /\ t_locals' = [model |-> t_locals.model, language |-> t_locals.language,
                            response_format |-> t_locals.response_format,
                            params |-> transcription_params(t_locals, t_args.file_path,
                                                            t_args.prompt)]
            /\ IF resp.raises
               THEN /\ t_trace' = t_trace \o <<Event("open", TRUE),
                                    RaisedEvent("transcriptions.create", resp.error)>>
                    /\ t_transcript' = <<Transcript(PyStr(resp.error), t_locals.language,
                                                    <<>>, t_args.file_path)>>
                    /\ t_pc' = "returned"
                    /\ UNCHANGED <<t_result, t_raised>>
               ELSE /\ t_trace' = t_trace \o <<Event("open", TRUE),
                                               Event("transcriptions.create", TRUE)>>
                    /\ t_result' = <<resp.result>>
                    /\ t_pc' = "result"
                    /\ UNCHANGED <<t_raised, t_transcript>>
    /\ UNCHANGED <<settings_instance, client_cache, t_args>>

\* lines 199-222: the file is opened and the transcription API is called; the
\* handler of line 218 logs and re-raises the exception it caught
T_ApiCall(open_ok, resp) ==
    /\ t_pc = "client"
    /\ IF ~open_ok
       THEN /\ t_trace' = Append(t_trace, Event("open", FALSE))
            /\ t_raised' = <<[type |-> "OSError"]>>
            /\ t_pc' = "raised"
            /\ UNCHANGED <<t_locals, t_result>>
       ELSE /\ t_locals' = [model |-> t_locals.model, language |-> t_locals.language,
                            response_format |-> t_locals.response_format,
                            params |-> transcription_params(t_locals, t_args.file_path,
                                                            t_args.prompt)]
            /\ IF resp.raises
               THEN /\ t_trace' = t_trace \o <<Event("open", TRUE),
                                    RaisedEvent("transcriptions.create", resp.error)>>
                    /\ t_raised' = <<[type |-> resp.error]>>
                    /\ t_pc' = "raised"
                    /\ UNCHANGED t_result
               ELSE /\ t_trace' = t_trace \o <<Event("open", TRUE),
                                               Event("transcriptions.create", TRUE)>>
                    /\ t_result' = <<resp.result>>
                    /\ t_pc' = "result"
                    /\ UNCHANGED t_raised
    /\ UNCHANGED <<settings_instance, client_cache, t_args, t_transcript>>

\* lines 224-227
T_Process ==
    /\ t_pc = "result"
    /\ t_transcript' = <<process_transcription_result(t_result[1], t_locals.response_format,
                                                      t_locals.language, t_args.file_path)>>
    /\ t_pc' = "returned"
    /\ UNCHANGED <<settings_instance, client_cache, t_args, t_locals, t_trace, t_result,
                   t_raised>>

\* the call is over: its locals are gone, the caches stay
T_Finish ==
    /\ t_pc \in {"returned", "raised"}
    /\ t_pc' = "idle"
    /\ t_args' = <<>>
    /\ t_locals' = <<>>
    /\ t_trace' = <<>>
    /\ t_result' = <<>>
    /\ t_transcript' = <<>>
    /\ t_raised' = <<>>
    /\ UNCHANGED <<settings_instance, client_cache>>

\* summarize_transcript is not running
SummarizerIdle ==
    UNCHANGED <<primary_embeds, primary_outcome, pc, args, model, temperature, text, user_prompt, calls, content, e,
                summary, fallback_error, raised, upstream, history, ovars>>

TranscribeNext ==
    \/ /\ t_pc = "idle"
       /\ \E file_path \in FilePaths, mdl \in TranscribeModels, language \in Languages,
             response_format \in ResponseFormats, prompt \in Prompts, is_file \in BOOLEAN :
               T_EnsureAudio(file_path, mdl, language, response_format, prompt, is_file)
       /\ SummarizerIdle
    \/ T_ValidateModelFormat /\ SummarizerIdle
    \/ T_GetClient /\ SummarizerIdle
    \/ /\ t_pc = "client"
       /\ \E open_ok \in BOOLEAN, resp \in TranscriptionResponses : T_ApiCall(open_ok, resp)
       /\ SummarizerIdle
    \/ T_Process /\ SummarizerIdle
    \/ T_Finish /\ SummarizerIdle

SpecTranscribe == Init /\ [][TranscribeNext]_vars

(***************************************************************************)
(* _process_transcription_result called on its own, and the loader of      *)
(* persisted transcripts (app/cli.py).                                     *)
(***************************************************************************)
\* a dict of the given entries, an absent entry being <<>>
Entries(start, end, txt) ==
    PyDict([key \in {x \in {"start", "end", "text"} :
                        \/ x = "start" /\ start # <<>>
                        \/ x = "end" /\ end # <<>>
                        \/ x = "text" /\ txt # <<>>}
               |-> CASE key = "start" -> start[1]
                     [] key = "end" -> end[1]
                     [] key = "text" -> txt[1]])

\* what a segment entry may give as start or end
Timestamps ==
    { <<>>, <<PyNone>>, <<PyNum(0)>>, <<PyNum(25)>>, <<PyStr("0")>>, <<PyStr("2.5")>>,
      <<PyStr(" 2.5 ")>>, <<PyStr("")>>, <<PyStr("   ")>>, <<PyStr("none")>>,
      <<PyStr("NULL")>>, <<PyStr("nan")>>, <<PyStr(" NaN ")>>, <<PyStr("abc")>>,
      <<PyList(<<>>)>> }

\* the entries that lists of several segments are made of
CoreEntries ==
    { Entries(<<PyNum(0)>>, <<PyNum(25)>>, <<PyStr("hi")>>),
      Entries(<<PyStr("2.5")>>, <<PyStr("nan")>>, <<PyStr("bye")>>),
      Entries(<<PyStr("abc")>>, <<PyList(<<>>)>>, <<PyStr("hm")>>),
      Entries(<<PyNum(0)>>, <<PyNum(25)>>, <<PyNum(7)>>),
      Entries(<<PyNum(0)>>, <<PyNum(25)>>, <<>>),
      PyStr("solto") }

SegmentLists ==
    SeqsUpTo(CoreEntries, MaxSegments)
        \cup {<<Entries(ts, <<PyNum(25)>>, <<PyStr("um")>>)>> : ts \in Timestamps}
        \cup {<<Entries(<<PyStr("2.5")>>, ts, <<PyStr("dois")>>)>> : ts \in Timestamps}

\* the fields of a verbose_json envelope
VerboseFields ==
    {[text |-> PyStr("hi bye"), language |-> PyStr("en"), segments |-> PyList(l)] :
        l \in SegmentLists}
    \cup { [text |-> PyStr("hi bye"), language |-> PyStr("en")],
           [text |-> PyStr("hi bye"), language |-> PyStr("en"), segments |-> PyNone],
           [text |-> PyStr("hi bye"), language |-> PyStr("en"), segments |-> PyStr("x")],
           [text |-> PyStr("hi bye"), segments |-> PyList(<<>>)],
           [text |-> PyNum(7), language |-> PyStr("en"), segments |-> PyList(<<>>)],
           [text |-> PyNone, language |-> PyStr("en"), segments |-> PyList(<<PyStr("solto")>>)],
           [language |-> PyNum(7), segments |-> PyList(<<>>)] }

\* how the conversion methods of an object may behave
Conversions ==
    { SdkConv,
      [to_dict |-> "raises", model_dump |-> "dict", dict |-> "absent",
       model_dump_json |-> "absent"],
      [to_dict |-> "other", model_dump |-> "absent", dict |-> "absent",
       model_dump_json |-> "dict"],
      [to_dict |-> "absent", model_dump |-> "absent", dict |-> "absent",
       model_dump_json |-> "list"],
      [to_dict |-> "absent", model_dump |-> "absent", dict |-> "absent",
       model_dump_json |-> "raises"],
      [to_dict |-> "absent", model_dump |-> "absent", dict |-> "absent",
       model_dump_json |-> "absent"] }

\* the fields of a plain envelope
PlainFields ==
    { [text |-> PyStr("olá")], [text |-> PyStr("")], [text |-> PyNum(7)],
      [text |-> PyNone], <<>> }

\* results of every shape: objects of the SDK, objects that convert in other
\* ways and whose attributes may lack the text, plain dicts, plain strings, None
RawResults ==
    {SdkObj(f) : f \in VerboseFields}
        \cup {PyObj(a, f, c) : a \in {<<>>, [text |-> PyStr("atributo")]},
                               f \in PlainFields, c \in Conversions}
        \cup {PyDict(f) : f \in PlainFields}
        \cup { PyDict([text |-> PyStr("hi bye"),
                       segments |-> PyList(<<Entries(<<PyNum(0)>>, <<PyNum(25)>>,
                                                     <<PyStr("hi")>>)>>)]),
               PyStr("olá"), PyStr(""), PyNone }

NormalizeFormats == {"text", "json", "verbose_json", "srt", "vtt"}
NormalizeLanguages == {"pt", "en"}

\* _process_transcription_result is called with a result of any shape
N_Call(result, response_format, language, file_path) ==
    /\ t_pc = "idle"
    /\ t_pc' = "result"
    /\ t_args' = [file_path |-> file_path]
    /\ t_locals' = [response_format |-> response_format, language |-> language]
    /\ t_result' = <<result>>
    /\ t_trace' = <<>>
    /\ t_transcript' = <<>>
    /\ t_raised' = <<>>
    /\ UNCHANGED <<settings_instance, client_cache>>

\* segments_model_validate that leaves every speaker at its default
RECURSIVE segments_model_validate_without_speaker(_)
segments_model_validate_without_speaker(items) ==
    IF items = <<>> THEN [ok |-> TRUE, value |-> <<>>]
    ELSE LET before == segments_model_validate_without_speaker(SubSeq(items, 1, Len(items) - 1))
             item == items[Len(items)]
         IN  IF ~before.ok \/ item.k # "dict" THEN [ok |-> FALSE]
             ELSE IF "text" \notin DOMAIN item.d THEN [ok |-> FALSE]
             ELSE LET seg == TranscriptSegment(DictGet(item.d, "start", PyNone),
                                               DictGet(item.d, "end", PyNone),
                                               item.d["text"])
                  IN  IF seg.ok THEN [ok |-> TRUE, value |-> Append(before.value, seg.value)]
                      ELSE [ok |-> FALSE]

\* TranscriptSegment.model_validate on the items of a list: [ok, value]
RECURSIVE segments_model_validate(_)
segments_model_validate(items) ==
    IF items = <<>> THEN [ok |-> TRUE, value |-> <<>>]
    ELSE LET before == segments_model_validate(SubSeq(items, 1, Len(items) - 1))
             item == items[Len(items)]
         IN  IF ~before.ok \/ item.k # "dict" THEN [ok |-> FALSE]
             ELSE IF "text" \notin DOMAIN item.d THEN [ok |-> FALSE]
             ELSE LET seg == TranscriptSegment(DictGet(item.d, "start", PyNone),
                                               DictGet(item.d, "end", PyNone),
                                               item.d["text"])
                      speaker == DictGet(item.d, "speaker", PyNone)
                  IN  IF seg.ok /\ speaker.k \in {"none", "str"}
                      THEN [ok |-> TRUE,
                            value |-> Append(before.value,
                                             [seg.value EXCEPT !.speaker = speaker])]
                      ELSE [ok |-> FALSE]

\* a str that is the path p, as str(path) gives it
PyPathStr(p) == [k |-> "pathstr", p |-> p]

\* the value is a str: a literal, the printed form of a value, or a path
IsStr(v) == v.k \in {"str", "repr", "pathstr"}

\* Transcript.model_validate: [ok, value]; text is the one required field and
\* no validator touches segments
transcript_model_validate(data) ==
    IF data.k # "dict" THEN [ok |-> FALSE]
    ELSE LET txt == DictGet(data.d, "text", PyNone)
             lang == DictGet(data.d, "language", PyStr("pt"))
             segs == DictGet(data.d, "segments", PyNone)
             src == DictGet(data.d, "source_path", PyNone)
             source_path == CASE src.k = "none" -> <<>>
                              [] src.k = "pathstr" -> src.p
                              [] src.k = "str" -> [stem |-> src.s, suffix |-> ""]
             items == IF segs.k = "list" THEN segments_model_validate(segs.items)
                      ELSE [ok |-> FALSE]
         IN  IF ~IsStr(txt) \/ lang.k # "str" \/ src.k \notin {"none", "pathstr", "str"}
             THEN [ok |-> FALSE]
             ELSE IF segs.k = "none"
             THEN [ok |-> TRUE, value |-> Transcript(txt, lang.s, <<>>, source_path)]
             ELSE IF items.ok
             THEN [ok |-> TRUE,
                   value |-> Transcript(txt, lang.s, <<items.value>>, source_path)]
             ELSE [ok |-> FALSE]

\* files to load: a path is [stem, suffix]; the contents are the characters
\* and, when they are JSON, the value json.load gives
LoadPaths == {[stem |-> "ata", suffix |-> x] : x \in {".json", ".txt", ".TXT", ".mp3", ".ogg"}}
FileContents ==
    { [raw |-> PyStr("ata da reunião"), json |-> <<>>],
      [raw |-> PyStr(""), json |-> <<>>],
      [raw |-> PyStr("{text}"), json |-> <<PyDict([text |-> PyStr("ata")])>>],
      [raw |-> PyStr("{text, language, segments: [s]}"),
       json |-> <<PyDict([text |-> PyStr("ata"), language |-> PyStr("en"),
                          segments |-> PyList(<<Entries(<<PyNum(0)>>, <<PyStr("2.5")>>,
                                                        <<PyStr("hi")>>)>>)])>>],
      [raw |-> PyStr("{text, segments: []}"),
       json |-> <<PyDict([text |-> PyStr("ata"), segments |-> PyList(<<>>)])>>],
      [raw |-> PyStr("{text, segments: null}"),
       json |-> <<PyDict([text |-> PyStr("ata"), segments |-> PyNone])>>],
      [raw |-> PyStr("{text, segments: [{start}]}"),
       json |-> <<PyDict([text |-> PyStr("ata"),
                          segments |-> PyList(<<Entries(<<PyNum(0)>>, <<>>, <<>>)>>)])>>],
      [raw |-> PyStr("{language}"), json |-> <<PyDict([language |-> PyStr("en")])>>],
      [raw |-> PyStr("[]"), json |-> <<PyList(<<>>)>>] }

\* the loader ends without transcribing
L_Done(path, trace, transcript, exception) ==
    /\ t_args' = [file_path |-> path]
    /\ t_locals' = <<>>
    /\ t_result' = <<>>
    /\ t_trace' = trace
    /\ t_transcript' = transcript
    /\ t_raised' = exception
    /\ t_pc' = IF exception = <<>> THEN "returned" ELSE "raised"
    /\ UNCHANGED <<settings_instance, client_cache>>

\* _load_transcript_from_path, lines 51-65; an audio path goes on in transcribe_file
L_Load(path, exists, is_file, contents) ==
    /\ t_pc = "idle"
    /\ IF ~exists
       THEN L_Done(path, <<Event("exists", FALSE)>>, <<>>,
                   <<[type |-> "FileNotFoundError", path |-> path]>>)
       ELSE IF Lower(path.suffix) = ".json"
       THEN IF contents.json = <<>>
            THEN L_Done(path, <<Event("exists", TRUE), Event("json.load", FALSE)>>, <<>>,
                        <<[type |-> "JSONDecodeError"]>>)
            ELSE LET r == transcript_model_validate(contents.json[1])
                 IN  IF r.ok
                     THEN L_Done(path, <<Event("exists", TRUE), Event("json.load", TRUE),
                                         Event("model_validate", TRUE)>>, <<r.value>>, <<>>)
                     ELSE L_Done(path, <<Event("exists", TRUE), Event("json.load", TRUE),
                                         Event("model_validate", FALSE)>>, <<>>,
                                 <<[type |-> "ValidationError"]>>)
       ELSE IF Lower(path.suffix) = ".txt"
       THEN L_Done(path, <<Event("exists", TRUE), Event("read", TRUE)>>,
                   <<Transcript(contents.raw, "pt", <<>>, path)>>, <<>>)
       ELSE T_EnsureAudio(path, <<>>, None, None, None, is_file)

NormalizePath == [stem |-> "reuniao", suffix |-> ".mp3"]

NormalizeNext ==
    \/ /\ t_pc = "idle"
       /\ \E result \in RawResults, response_format \in NormalizeFormats,
             language \in NormalizeLanguages :
               N_Call(result, response_format, language, NormalizePath)
       /\ SummarizerIdle
    \/ /\ t_pc = "idle"
       /\ \E path \in LoadPaths, exists \in BOOLEAN, is_file \in BOOLEAN,
             contents \in FileContents :
               L_Load(path, exists, is_file, contents)
       /\ SummarizerIdle
    \/ T_ValidateModelFormat /\ SummarizerIdle
    \/ T_GetClient /\ SummarizerIdle
    \/ /\ t_pc = "client"
       /\ \E open_ok \in BOOLEAN, resp \in TranscriptionResponses : T_ApiCall(open_ok, resp)
       /\ SummarizerIdle
    \/ T_Process /\ SummarizerIdle
    \/ T_Finish /\ SummarizerIdle

SpecNormalize == Init /\ [][NormalizeNext]_vars

(***************************************************************************)
(* save_transcript (app/core/transcriber.py) and the loader on the files   *)
(* it writes.  A JSON document is a tree of [j, ...] nodes; a file is      *)
(* [raw, json]: what f.read() gives and, when the text is JSON, what       *)
(* json.load gives.                                                        *)
(***************************************************************************)
\* Transcript.model_dump: the dict of the fields, the segments as dicts
model_dump(t) ==
    PyDict([ text |-> t.text,
             language |-> PyStr(t.language),
             segments |-> IF t.segments = <<>> THEN PyNone
                          ELSE PyList([i \in 1..Len(t.segments[1]) |->
                                          PyDict(t.segments[1][i])]),
             source_path |-> IF t.source_path = <<>> THEN PyNone
                             ELSE PyPathStr(t.source_path) ])

\* json.dump: the document written for a value
RECURSIVE json_dump(_)
json_dump(v) ==
    CASE v.k = "none" -> [j |-> "null"]
      [] v.k = "num" -> [j |-> "number", tenths |-> v.n]
      [] IsStr(v) -> [j |-> "string", str |-> v]
      [] v.k = "list" -> [j |-> "array",
                          elements |-> [i \in 1..Len(v.items) |-> json_dump(v.items[i])]]
      [] v.k = "dict" -> [j |-> "object",
                          members |-> [key \in DOMAIN v.d |-> json_dump(v.d[key])]]

\* json.load: the value read from a document
RECURSIVE json_load(_)
json_load(doc) ==
    CASE doc.j = "null" -> PyNone
      [] doc.j = "number" -> PyNum(doc.tenths)
      [] doc.j = "string" -> doc.str
      [] doc.j = "array" -> PyList([i \in 1..Len(doc.elements) |-> json_load(doc.elements[i])])
      [] doc.j = "object" -> PyDict([key \in DOMAIN doc.members |-> json_load(doc.members[key])])

\* the file json.dump(value, f) leaves
json_file(v) == [raw |-> [k |-> "json_text", doc |-> json_dump(v)],
                 json |-> <<json_load(json_dump(v))>>]

\* the file f.write(text) leaves; the texts of the model are not JSON
text_file(txt) == [raw |-> txt, json |-> <<>>]

\* save_transcript, lines 230-245: [disk, raised] after the call; the parent
\* directory is made before the format is looked at
save_transcript(files, transcript, output_path, as_format) ==
    CASE as_format = "json" ->
            [disk |-> (output_path :> json_file(model_dump(transcript))) @@ files,
             raised |-> <<>>]
      [] as_format = "txt" ->
            [disk |-> (output_path :> text_file(transcript.text)) @@ files,
             raised |-> <<>>]
      [] OTHER ->
            [disk |-> files,
             raised |-> <<[type |-> "ValueError", as_format |-> as_format]>>]

\* the transcripts there are: every combination of valid fields
PersistSegments ==
    { [start |-> start, end |-> end, text |-> PyStr("hi"), speaker |-> speaker] :
        start \in {PyNone, PyNum(0)}, end \in {PyNum(25)},
        speaker \in {PyNone, PyStr("Ana")} }
PersistTranscripts ==
    { Transcript(txt, language, segments, source_path) :
        txt \in {PyStr("ata"), PyStr(""), Str(PyNum(0))},
        language \in {"pt", "en"},
        segments \in {<<>>} \cup {<<l>> : l \in SeqsUpTo(PersistSegments, MaxSegments)},
        source_path \in {<<>>, [stem |-> "reuniao", suffix |-> ".mp3"]} }
PersistPaths == {[stem |-> "ata", suffix |-> x] : x \in {".json", ".txt", ".TXT"}}

\* save_transcript is called on an empty directory
S_Save(transcript, output_path, as_format) ==
    /\ disk = <<>>
    /\ persist = <<>>
    /\ LET r == save_transcript(disk, transcript, output_path, as_format)
       IN  /\ disk' = r.disk
           /\ persist' = <<[transcript |-> transcript, output_path |-> output_path,
                            as_format |-> as_format, raised |-> r.raised]>>
    /\ UNCHANGED <<svars, upstream, history, tvars, parse_log, environ, wvars, cli>>

\* _load_transcript_from_path on a path of the directory
S_Load(path) ==
    /\ persist # <<>>
    /\ IF path \in DOMAIN disk
       THEN L_Load(path, TRUE, TRUE, disk[path])
       ELSE L_Load(path, FALSE, FALSE, text_file(PyStr("")))
    /\ SummarizerIdle

PersistNext ==
    \/ /\ disk = <<>>
       /\ persist = <<>>
       /\ \E transcript \in PersistTranscripts, output_path \in PersistPaths,
             as_format \in {"json", "txt", "xml"} :
               S_Save(transcript, output_path, as_format)
    \/ /\ t_pc = "idle"
       /\ \E path \in PersistPaths : S_Load(path)

\* the configuration may name a default language
InitPersist ==
    /\ SummarizerInit
    /\ upstream = {}
    /\ history = <<>>
    /\ TranscriberInit
    /\ parse_log = <<>>
    /\ environ \in {DefaultEnviron, [DefaultEnviron EXCEPT !.TRANSCRIBE_LANGUAGE = "en"]}
    /\ WebInit
    /\ DiskInit

SpecPersist == InitPersist /\ [][PersistNext]_vars

(***************************************************************************)
(* The web session (app/web.py).  One script run handles one click; its    *)
(* handler calls transcribe_file or summarize_transcript, whose steps are  *)
(* the ones above, and the session state outlives the run.                 *)
(***************************************************************************)
\* the characters of a transcript text, as summarize_transcript reads them
Chars(str) ==
    CASE str = "" -> <<>>
      [] str = "bom dia" -> <<"b", "o", "m", " ", "d", "i", "a">>
      [] str = "bom dia a todos" ->
            <<"b", "o", "m", " ", "d", "i", "a", " ", "a", " ", "t", "o", "d", "o", "s">>

\* the choices of the sidebar: lines 401-419 and 447-470
SidebarTranscribeModels == {<<"whisper", "-1">>, <<"gpt-4o-mini-transcribe">>}
SidebarFormats(mdl) ==
    IF mdl = <<"gpt-4o-mini-transcribe">> THEN {"json", "text"}
    ELSE {"verbose_json", "json", "text", "srt", "vtt"}
SidebarSummaryModels == {"gpt-4o-mini", "gpt-4o"}
\* elapsed seconds a handler may measure
Durations == {1, 2}

\* save_uploaded_file, lines 134-146: the n-th file saved in the session
temp_path(n, suffix) == [stem |-> <<"audio_", n>>, suffix |-> suffix]

\* check_api_key, lines 119-122, on the settings the run gets
check_api_key == get_instance(settings_instance)[1].openai_api_key # ""

\* main, lines 352-354: the run stops at the message about the credential
W_NoApiKey ==
    /\ w_pc = "idle"
    /\ ~check_api_key
    /\ settings_instance' = get_instance(settings_instance)
    /\ w_message' = "api_key_error"
    /\ UNCHANGED <<client_cache, pc, args, model, temperature, text, user_prompt, calls,
                   content, e, summary, fallback_error, raised, primary_embeds,
                   primary_outcome, upstream, history, tvars, parse_log, dvars, environ,
                   session_state, w_pc, w_local, uploads, summary_of>>

\* _handle_transcription, lines 294-304: the uploaded file is saved and
\* transcribe_file is entered; a save that fails goes to the handler of line 316
W_StartTranscription(suffix, mdl, response_format, prompt, save_ok) ==
    /\ w_pc = "idle"
    /\ check_api_key
    /\ uploads < MaxUploads
    /\ IF save_ok
       THEN /\ uploads' = uploads + 1
            /\ T_EnsureAudio(temp_path(uploads + 1, suffix), mdl, "pt", response_format,
                             prompt, TRUE)
            /\ w_pc' = "transcribing"
            /\ w_local' = <<temp_path(uploads + 1, suffix)>>
            /\ w_message' = None
       ELSE /\ settings_instance' = get_instance(settings_instance)
            /\ w_message' = "error"
            /\ UNCHANGED <<client_cache, tvars, uploads, w_pc, w_local>>
    /\ UNCHANGED <<session_state, summary_of, parse_log, dvars, environ>>
    /\ UNCHANGED <<pc, args, model, temperature, text, user_prompt, calls, content, e,
                   summary, fallback_error, raised, primary_embeds, primary_outcome,
                   upstream, history>>

\* W_EndTranscription that stores the path of the saved file before the call
W_EndTranscription_path_first(processing_time) ==
    /\ w_pc = "transcribing"
    /\ T_Finish
    /\ IF t_pc = "returned"
       THEN /\ session_state' = [session_state EXCEPT
                                    !.transcript = t_transcript,
                                    !.processing_time = <<processing_time>>,
                                    !.audio_path = w_local]
            /\ w_message' = "success"
       ELSE /\ w_message' = "error"
            /\ session_state' = [session_state EXCEPT !.audio_path = w_local]
    /\ w_pc' = "idle"
    /\ w_local' = <<>>
    /\ UNCHANGED <<uploads, summary_of, parse_log, dvars, environ>>
    /\ UNCHANGED <<pc, args, model, temperature, text, user_prompt, calls, content, e,
                   summary, fallback_error, raised, primary_embeds, primary_outcome,
                   upstream, history>>

\* _handle_transcription, lines 305-319: transcribe_file is over; the session
\* state is written when it returned, the error is shown when it raised
W_EndTranscription(processing_time) ==
    /\ w_pc = "transcribing"
    /\ T_Finish
    /\ IF t_pc = "returned"
       THEN /\ session_state' = [session_state EXCEPT
                                    !.transcript = t_transcript,
                                    !.processing_time = <<processing_time>>,
                                    !.audio_path = w_local]
            /\ w_message' = "success"
       ELSE /\ w_message' = "error"
            /\ UNCHANGED session_state
    /\ w_pc' = "idle"
    /\ w_local' = <<>>
    /\ UNCHANGED <<uploads, summary_of, parse_log, dvars, environ>>
    /\ UNCHANGED <<pc, args, model, temperature, text, user_prompt, calls, content, e,
                   summary, fallback_error, raised, primary_embeds, primary_outcome,
                   upstream, history>>

\* _show_summary_tab, lines 544-565, and _handle_summary_generation, lines
\* 325-332: summarize_transcript is entered with the stored transcript
W_StartSummary(mdl, temp, extra_context) ==
    /\ w_pc = "idle"
    /\ check_api_key
    /\ session_state.transcript # <<>>
    /\ Invoke(Chars(session_state.transcript[1].text.s), mdl, <<temp>>, extra_context)
    /\ w_pc' = "summarizing"
    /\ w_local' = session_state.transcript
    /\ w_message' = None
    /\ UNCHANGED <<session_state, uploads, summary_of, parse_log, dvars, environ, upstream,
                   history, tvars>>

\* _handle_summary_generation, lines 333-344: summarize_transcript is over
W_EndSummary(processing_time) ==
    /\ w_pc = "summarizing"
    /\ Finish
    /\ IF pc = "returned"
       THEN /\ session_state' = [session_state EXCEPT
                                    !.summary = <<summary>>,
                                    !.summary_time = <<processing_time>>]
            /\ summary_of' = w_local
            /\ w_message' = "success"
       ELSE /\ w_message' = "error"
            /\ UNCHANGED <<session_state, summary_of>>
    /\ w_pc' = "idle"
    /\ w_local' = <<>>
    /\ UNCHANGED <<uploads, parse_log, dvars, environ, upstream, history, tvars>>

\* _setup_sidebar, lines 475-480: the five keys are deleted and the script reruns
W_ClearSession ==
    /\ w_pc = "idle"
    /\ check_api_key
    /\ settings_instance' = get_instance(settings_instance)
    /\ session_state' = EmptySession
    /\ summary_of' = <<>>
    /\ w_message' = "Sessão limpa!"
    /\ UNCHANGED <<client_cache, pc, args, model, temperature, text, user_prompt, calls,
                   content, e, summary, fallback_error, raised, primary_embeds,
                   primary_outcome, upstream, history, tvars, parse_log, dvars, environ,
                   w_pc, w_local, uploads>>

\* the steps of the call a handler is waiting for leave the session alone
WebWaits == UNCHANGED <<upstream, history, parse_log, dvars, environ, wvars>>

WebNext ==
    \/ W_NoApiKey
    \/ /\ w_pc = "idle"
       /\ \E suffix \in {".mp3", ".wav"}, mdl \in SidebarTranscribeModels, save_ok \in BOOLEAN :
             \E response_format \in SidebarFormats(mdl) :
                 W_StartTranscription(suffix, mdl, response_format, None, save_ok)
    \/ /\ w_pc = "transcribing"
       /\ T_ValidateModelFormat
       /\ SummarizerIdle
    \/ /\ w_pc = "transcribing"
       /\ T_GetClient
       /\ SummarizerIdle
    \/ /\ w_pc = "transcribing"
       /\ t_pc = "client"
       /\ \E open_ok \in BOOLEAN, resp \in TranscriptionResponses : T_ApiCall(open_ok, resp)
       /\ SummarizerIdle
    \/ /\ w_pc = "transcribing"
       /\ T_Process
       /\ SummarizerIdle
    \/ /\ w_pc = "transcribing"
       /\ t_pc \in {"returned", "raised"}
       /\ \E processing_time \in Durations : W_EndTranscription(processing_time)
    \/ /\ w_pc = "idle"
       /\ \E mdl \in SidebarSummaryModels, extra_context \in {None, "pauta"} :
             W_StartSummary(mdl, DefaultSummaryTemperature, extra_context)
    \/ /\ w_pc = "summarizing"
       /\ pc = "primary"
       /\ \E resp \in IdemResponses : PrimaryCall(resp)
       /\ UNCHANGED tvars
       /\ WebWaits
    \/ /\ w_pc = "summarizing"
       /\ pc = "retry"
       /\ \E resp \in IdemResponses : RetryCall(resp)
       /\ UNCHANGED tvars
       /\ WebWaits
    \/ /\ w_pc = "summarizing"
       /\ pc \in {"returned", "raised"}
       /\ \E processing_time \in Durations : W_EndSummary(processing_time)
    \/ W_ClearSession

\* the session starts in a process whose environment may lack the credential
InitWeb ==
    /\ SummarizerInit
    /\ upstream = {}
    /\ history = <<>>
    /\ TranscriberInit
    /\ parse_log = <<>>
    /\ environ \in {DefaultEnviron, [DefaultEnviron EXCEPT !.OPENAI_API_KEY = None]}
    /\ WebInit
    /\ DiskInit

SpecWeb == InitWeb /\ [][WebNext]_vars

(***************************************************************************)
(* The command line (app/cli.py).  One run of main is one process: it      *)
(* starts with empty caches and leaves its files to the next run.          *)
(***************************************************************************)
TranscriptJson == [stem |-> "transcricao", suffix |-> ".json"]
TranscriptTxt == [stem |-> "transcricao", suffix |-> ".txt"]
SummaryJson == [stem |-> "ata", suffix |-> ".json"]

\* the arguments parse_args gives for "transcribe"; output is <<>> or <<path>>
TranscribeArgs ==
    { [input |-> input, model |-> mdl, language |-> None, format |-> format,
       prompt |-> None, output |-> out.output, save_json |-> out.save_json] :
        input \in {[stem |-> "reuniao", suffix |-> x] : x \in {".mp3", ".ogg"}},
        mdl \in {<<>>, <<"whisper", "-1">>},
        format \in {None, "verbose_json"},
        out \in { [output |-> <<>>, save_json |-> FALSE],
                  [output |-> <<TranscriptJson>>, save_json |-> TRUE],
                  [output |-> <<TranscriptTxt>>, save_json |-> FALSE] } }

\* the arguments parse_args gives for "summarize"
SummarizeArgs ==
    { [input |-> input, model |-> None, temperature |-> <<>>, context |-> context,
       output |-> output] :
        input \in {TranscriptJson, TranscriptTxt, [stem |-> "reuniao", suffix |-> ".mp3"]},
        context \in {None, "pauta"},
        output \in {<<>>, <<SummaryJson>>} }

\* os.getenv("OPENAI_API_KEY") is truthy
has_api_key == environ.OPENAI_API_KEY # None /\ environ.OPENAI_API_KEY # ""

\* main returns code; error is <<>> or <<the exception the subcommand raised>>
exited(command, code, error) ==
    [pc |-> "exited", command |-> command, exit_code |-> code, error |-> error]

\* main, lines 181-193, without the credential: exit code 2
C_MainNoKey(command) ==
    /\ cli.pc = "idle"
    /\ ~has_api_key
    /\ cli' = exited(command, 2, <<>>)
    /\ UNCHANGED <<svars, upstream, history, tvars, parse_log, environ, wvars, disk, persist>>

\* main, lines 195-196, and cmd_transcribe, lines 27-38: transcribe_file is entered
C_MainTranscribe(a, is_file) ==
    /\ cli.pc = "idle"
    /\ has_api_key
    /\ LET settings == get_instance(settings_instance)[1]
       IN  T_EnsureAudio(a.input,
                         IF a.model # <<>> THEN a.model ELSE settings.default_transcribe_model,
                         IF Truthy(a.language) THEN a.language ELSE settings.default_language,
                         IF Truthy(a.format) THEN a.format ELSE settings.default_response_format,
                         a.prompt, is_file)
    /\ cli' = [pc |-> "transcribe", command |-> "transcribe", args |-> a]
    /\ UNCHANGED <<upstream, history, parse_log, environ, wvars, disk, persist>>
    /\ UNCHANGED <<pc, args, model, temperature, text, user_prompt, calls, content, e,
                   summary, fallback_error, raised, primary_embeds, primary_outcome>>

\* cmd_transcribe, lines 40-48, and main, lines 195-199: the transcript is
\* saved or printed; what transcribe_file or save_transcript raised is caught
C_TranscribeEnd(write_ok) ==
    /\ cli.pc = "transcribe"
    /\ T_Finish
    /\ IF t_pc = "raised"
       THEN /\ cli' = exited("transcribe", 1, t_raised)
            /\ UNCHANGED <<disk, persist>>
       ELSE IF cli.args.output = <<>>
       THEN /\ cli' = exited("transcribe", 0, <<>>)
            /\ UNCHANGED <<disk, persist>>
       ELSE IF ~write_ok
       THEN /\ cli' = exited("transcribe", 1, <<[type |-> "OSError"]>>)
            /\ UNCHANGED <<disk, persist>>
       ELSE LET out_fmt == IF cli.args.save_json THEN "json" ELSE "txt"
                r == save_transcript(disk, t_transcript[1], cli.args.output[1], out_fmt)
            IN  /\ disk' = r.disk
                /\ persist' = <<[transcript |-> t_transcript[1],
                                 output_path |-> cli.args.output[1],
                                 as_format |-> out_fmt, raised |-> r.raised]>>
                /\ cli' = IF r.raised = <<>> THEN exited("transcribe", 0, <<>>)
                          ELSE exited("transcribe", 1, r.raised)
    /\ UNCHANGED <<upstream, history, parse_log, environ, wvars>>
    /\ UNCHANGED <<pc, args, model, temperature, text, user_prompt, calls, content, e,
                   summary, fallback_error, raised, primary_embeds, primary_outcome>>

\* main, lines 195-196, and cmd_summarize, line 69
C_MainSummarize(a) ==
    /\ cli.pc = "idle"
    /\ has_api_key
    /\ settings_instance' = get_instance(settings_instance)
    /\ cli' = [pc |-> "load", command |-> "summarize", args |-> a]
    /\ UNCHANGED <<client_cache, pc, args, model, temperature, text, user_prompt, calls,
                   content, e, summary, fallback_error, raised, primary_embeds,
                   primary_outcome, upstream, history, tvars, parse_log, environ, wvars,
                   disk, persist>>

\* cmd_summarize, line 72: the loader; an audio input goes on in transcribe_file
C_Load(is_file) ==
    /\ cli.pc = "load"
    /\ t_pc = "idle"
    /\ LET path == cli.args.input
       IN  IF path \in DOMAIN disk
           THEN L_Load(path, TRUE, TRUE, disk[path])
           ELSE L_Load(path, is_file, is_file, text_file(PyStr("")))
    /\ cli' = [cli EXCEPT !.pc = "loading"]
    /\ UNCHANGED <<upstream, history, parse_log, environ, wvars, disk, persist>>
    /\ UNCHANGED <<pc, args, model, temperature, text, user_prompt, calls, content, e,
                   summary, fallback_error, raised, primary_embeds, primary_outcome>>

\* cmd_summarize, lines 72-79: the transcript is there and summarize_transcript
\* is entered, or the loader raised and main catches it
C_Loaded ==
    /\ cli.pc = "loading"
    /\ T_Finish
    /\ IF t_pc = "raised"
       THEN /\ cli' = exited("summarize", 1, t_raised)
            /\ UNCHANGED <<pc, args, model, temperature, text, user_prompt, calls, content,
                           e, summary, fallback_error, raised, primary_embeds,
                           primary_outcome>>
       ELSE /\ Invoke(Chars(t_transcript[1].text.s),
                      IF Truthy(cli.args.model) THEN cli.args.model
                      ELSE settings_instance[1].summary_model,
                      cli.args.temperature, cli.args.context)
            /\ cli' = [cli EXCEPT !.pc = "summarize"]
    /\ UNCHANGED <<upstream, history, parse_log, environ, wvars, disk, persist>>

\* C_SummarizeEnd in a main that prints the failure and returns 0
C_SummarizeEnd_reporting_success(write_ok) ==
    /\ cli.pc = "summarize"
    /\ Finish
    /\ IF pc = "raised"
       THEN /\ cli' = exited("summarize", 0, <<[type |-> raised]>>)
            /\ UNCHANGED disk
       ELSE IF cli.args.output = <<>>
       THEN /\ cli' = exited("summarize", 0, <<>>)
            /\ UNCHANGED disk
       ELSE IF ~write_ok
       THEN /\ cli' = exited("summarize", 1, <<[type |-> "OSError"]>>)
            /\ UNCHANGED disk
       ELSE /\ disk' = (cli.args.output[1] :>
                            [raw |-> [k |-> "json_text", summary |-> summary],
                             json |-> <<[k |-> "summary", of |-> summary]>>]) @@ disk
            /\ cli' = exited("summarize", 0, <<>>)
    /\ UNCHANGED <<upstream, history, tvars, parse_log, environ, wvars, persist>>

\* cmd_summarize, lines 81-90, and main, lines 195-199: the summary is written
\* or printed; what summarize_transcript or the writing raised is caught
C_SummarizeEnd(write_ok) ==
    /\ cli.pc = "summarize"
    /\ Finish
    /\ IF pc = "raised"
       THEN /\ cli' = exited("summarize", 1, <<[type |-> raised]>>)
            /\ UNCHANGED disk
       ELSE IF cli.args.output = <<>>
       THEN /\ cli' = exited("summarize", 0, <<>>)
            /\ UNCHANGED disk
       ELSE IF ~write_ok
       THEN /\ cli' = exited("summarize", 1, <<[type |-> "OSError"]>>)
            /\ UNCHANGED disk
       ELSE /\ disk' = (cli.args.output[1] :>
                            [raw |-> [k |-> "json_text", summary |-> summary],
                             json |-> <<[k |-> "summary", of |-> summary]>>]) @@ disk
            /\ cli' = exited("summarize", 0, <<>>)
    /\ UNCHANGED <<upstream, history, tvars, parse_log, environ, wvars, persist>>

\* the process is over; the next one starts with empty caches
C_NextProcess ==
    /\ cli.pc = "exited"
    /\ cli' = [pc |-> "idle"]
    /\ settings_instance' = <<>>
    /\ client_cache' = <<>>
    /\ UNCHANGED <<pc, args, model, temperature, text, user_prompt, calls, content, e,
                   summary, fallback_error, raised, primary_embeds, primary_outcome,
                   upstream, history, tvars, parse_log, environ, wvars, disk, persist>>

\* the steps of the call a subcommand is waiting for
CliWaits == UNCHANGED <<upstream, history, parse_log, environ, wvars, dvars>>

CliNext ==
    \/ \E command \in {"transcribe", "summarize"} : C_MainNoKey(command)
    \/ /\ cli.pc = "idle"
       /\ \E a \in TranscribeArgs, is_file \in BOOLEAN : C_MainTranscribe(a, is_file)
    \/ /\ cli.pc = "idle"
       /\ \E a \in SummarizeArgs : C_MainSummarize(a)
    \/ \E is_file \in BOOLEAN : C_Load(is_file)
    \/ /\ cli.pc \in {"transcribe", "loading"}
       /\ T_ValidateModelFormat
       /\ SummarizerIdle
    \/ /\ cli.pc \in {"transcribe", "loading"}
       /\ T_GetClient
       /\ SummarizerIdle
    \/ /\ cli.pc \in {"transcribe", "loading"}
       /\ t_pc = "client"
       /\ \E open_ok \in BOOLEAN, resp \in TranscriptionResponses : T_ApiCall(open_ok, resp)
       /\ SummarizerIdle
    \/ /\ cli.pc \in {"transcribe", "loading"}
       /\ T_Process
       /\ SummarizerIdle
    \/ /\ cli.pc = "transcribe"
       /\ t_pc \in {"returned", "raised"}
       /\ \E write_ok \in BOOLEAN : C_TranscribeEnd(write_ok)
    \/ /\ t_pc \in {"returned", "raised"}
       /\ C_Loaded
    \/ /\ cli.pc = "summarize"
       /\ pc = "primary"
       /\ \E resp \in IdemResponses : PrimaryCall(resp)
       /\ UNCHANGED tvars
       /\ CliWaits
    \/ /\ cli.pc = "summarize"
       /\ pc = "retry"
       /\ \E resp \in IdemResponses : RetryCall(resp)
       /\ UNCHANGED tvars
       /\ CliWaits
    \/ /\ cli.pc = "summarize"
       /\ pc \in {"returned", "raised"}
       /\ \E write_ok \in BOOLEAN : C_SummarizeEnd(write_ok)
    \/ C_NextProcess

\* the environment main is started in: the credential set, unset or empty
InitCli ==
    /\ SummarizerInit
    /\ upstream = {}
    /\ history = <<>>
    /\ TranscriberInit
    /\ parse_log = <<>>
    /\ environ \in {DefaultEnviron, [DefaultEnviron EXCEPT !.OPENAI_API_KEY = None],
                     [DefaultEnviron EXCEPT !.OPENAI_API_KEY = ""]}
    /\ WebInit
    /\ DiskInit

SpecCli == InitCli /\ [][CliNext]_vars

(***************************************************************************)
(* The two parsing tiers of summarize_transcript applied to one content:   *)
(* lines 83-102 (the content of the primary call) and lines 118-137 (the   *)
(* content of the retry call).                                             *)
(***************************************************************************)
ParseContents == SeqsUpTo(Token \cup ArrayToken, MaxParseLen)

\* a content is received: nothing has parsed it yet
P_Receive(c) ==
    /\ parse_log = <<>>
    /\ parse_log' = <<[content |-> c, primary |-> <<>>, retry |-> <<>>]>>
    /\ UNCHANGED <<svars, upstream, history, tvars, environ, wvars, dvars>>

\* lines 83-102 on the content
P_Primary ==
    /\ parse_log # <<>>
    /\ parse_log[1].primary = <<>>
    /\ parse_log' = <<[parse_log[1] EXCEPT !.primary = <<parse_primary(parse_log[1].content)>>]>>
    /\ UNCHANGED <<svars, upstream, history, tvars, environ, wvars, dvars>>

\* lines 118-137 on the content
P_Retry(txt) ==
    /\ parse_log # <<>>
    /\ parse_log[1].retry = <<>>
    /\ parse_log' = <<[parse_log[1] EXCEPT !.retry = <<parse_retry(parse_log[1].content, txt)>>]>>
    /\ UNCHANGED <<svars, upstream, history, tvars, environ, wvars, dvars>>

ParseNext ==
    \/ /\ parse_log = <<>>
       /\ \E c \in ParseContents : P_Receive(c)
    \/ P_Primary
    \/ P_Retry(MkText(1))

SpecParse == Init /\ [][ParseNext]_vars

(***************************************************************************)
(* Claims about summarize_transcript.                                      *)
(***************************************************************************)
Terminal == pc \in {"returned", "raised"}

\* C1: once the client handle has been obtained, summarize_transcript ends by
\* returning a MeetingSummary whatever the two chat calls do: no exception
\* escapes it.
C1_NoExceptionEscapes == Terminal => pc = "returned"

\* a content that cannot be parsed and validated: no brace-delimited substring,
\* one that is not JSON, or JSON that is no MeetingSummary
Unusable(c) ==
    \A i, j \in 1..Len(c) :
        ~ /\ i < j
          /\ c[i] = "{"
          /\ c[j] = "}"
          /\ \A k \in 1..(i - 1) : c[k] # "{"
          /\ \A k \in (j + 1)..Len(c) : c[k] # "}"
          /\ \A k \in (i + 1)..(j - 1) : c[k] \in MemberToken
          /\ \E k \in (i + 1)..(j - 1) : c[k] \in {"s", "e"}

\* both calls answered with a content (the primary content was then unusable,
\* or there would have been no retry call)
BothAnswered ==
    /\ Len(calls) = 2
    /\ pc = "raised" => (e # "APIError" /\ fallback_error # "APIError")

\* C2: whenever neither the primary content nor the retry content can be parsed
\* and validated as a MeetingSummary, summarize_transcript returns the
\* synthesized fallback MeetingSummary built from the transcript text.
C2_UnusableContentsGiveFallback ==
    (Terminal /\ BothAnswered /\ Unusable(content))
        => (pc = "returned" /\ summary = fallback_summary(text))

\* C3: if the retry chat call raises, summarize_transcript returns the terminal
\* fallback MeetingSummary instead of raising.
C3_RetryRaiseGivesFallback ==
    (Terminal /\ fallback_error = "APIError")
        => (pc = "returned" /\ summary = fallback_summary(text))

\* the retry content holds no "{" followed later by a "}"
NoBracePair(c) == ~ \E i, j \in 1..Len(c) : i < j /\ c[i] = "{" /\ c[j] = "}"

\* the invocation returned the summary synthesized from the transcript
FallbackReturned == pc = "returned" /\ Len(calls) = 2 /\ NoBracePair(content)

\* C4: the terminal fallback MeetingSummary has summary equal to the transcript
\* text when the text has at most 500 characters and otherwise its first 500
\* characters followed by an ellipsis; key_points and insights hold exactly one
\* notice each; decisions and action_items are empty.
C4_FallbackShape ==
    FallbackReturned =>
        /\ Len(text) <= SummaryPreviewLen => summary.summary = text
        /\ Len(text) > SummaryPreviewLen =>
              /\ Len(summary.summary) = SummaryPreviewLen + 3
              /\ \A i \in 1..SummaryPreviewLen : summary.summary[i] = text[i]
              /\ \A i \in 1..3 : summary.summary[SummaryPreviewLen + i] = "."
        /\ Len(summary.key_points) = 1
        /\ Len(summary.insights) = 1
        /\ summary.decisions = <<>>
        /\ summary.action_items = <<>>

C4_Witness == FallbackReturned /\ Len(text) > SummaryPreviewLen

\* C5: every MeetingSummary returned by summarize_transcript has a non-empty
\* summary field, on the success paths and on the fallback path alike.
C5_SummaryNeverEmpty == pc = "returned" => summary.summary # <<>>

\* C6: the temperature carried by the primary and by the retry chat request is
\* the per-call temperature clamped to [0.0, 1.0].
C6_TemperatureClamped ==
    \A i \in 1..Len(calls) :
        args.temperature # <<>> =>
            calls[i].temperature = Max(TempLow, Min(TempHigh, args.temperature[1]))

Constrained(req) == "response_format" \in DOMAIN req

\* C7: one invocation makes at most two chat calls, at most one with the
\* JSON-object constraint and at most one without it, and the unconstrained
\* call is only made after the constrained call has been made and has failed.
C7_AtMostTwoCalls ==
    /\ [](/\ Len(calls) <= 2
          /\ Cardinality({i \in 1..Len(calls) : Constrained(calls[i])}) <= 1
          /\ Cardinality({i \in 1..Len(calls) : ~Constrained(calls[i])}) <= 1)
    /\ [][ (Len(calls') = Len(calls) + 1 /\ ~Constrained(calls'[Len(calls')]))
             => /\ \E j \in 1..Len(calls) : Constrained(calls[j])
                /\ pc = "retry"
                /\ e # None
       ]_vars

C7_Witness == Terminal /\ Len(calls) = 2

\* C8: when the primary content is not valid JSON as a whole but embeds a valid
\* JSON object inside surrounding prose, summarize_transcript returns the
\* MeetingSummary of that embedded object without making the retry call.
C8_EmbeddedObjectRecovered ==
    primary_embeds =>
        /\ pc = "returned"
        /\ Len(calls) = 1
        /\ \A i, j \in 1..Len(content) :
              Embeds(content, i, j) => summary.summary = EmbeddedSummaryText(content, i, j)
        /\ summary.key_points = <<>>

C8_Witness ==
    /\ primary_embeds
    /\ pc = "returned"
    /\ Len(calls) = 1
    /\ \E i, j \in 1..Len(content) : Embeds(content, i, j)

\* C9: two invocations with the same transcript text, model, temperature and
\* extra context, against an upstream whose answer is a function of the
\* request only, have the same outcome: equal MeetingSummary values, or the
\* same failure.
C9_SameInputsSameOutcome ==
    \A i, j \in 1..Len(history) :
        (history[i].text = history[j].text /\ history[i].args = history[j].args)
            => history[i].outcome = history[j].outcome

C9_Witness ==
    \E i, j \in 1..Len(history) :
        /\ i < j
        /\ history[i].text = history[j].text
        /\ history[i].args = history[j].args
        /\ history[i].outcome.kind = "returned"

(***************************************************************************)
(* Claims about transcribe_file.                                           *)
(***************************************************************************)
Checks == {"is_file", "ext_or_mime", "model_and_format"}
Position(op) == CHOOSE i \in 1..Len(t_trace) : t_trace[i].op = op
Happened(op) == \E i \in 1..Len(t_trace) : t_trace[i].op = op
Passed(op) == \E i \in 1..Len(t_trace) : t_trace[i].op = op /\ t_trace[i].ok
Failed(op) == \E i \in 1..Len(t_trace) : t_trace[i].op = op /\ ~t_trace[i].ok

\* C10: in transcribe_file the file-existence check, the extension/MIME check
\* and the model/format check all complete before the client is obtained and
\* before the transcription API is invoked; if one of them fails, the API is
\* never called in that invocation and the validation error reaches the caller.
C10_ChecksBeforeApi ==
    /\ \A op \in {"get_openai_client", "transcriptions.create"} :
          Happened(op) =>
              \A chk \in Checks : Passed(chk) /\ Position(chk) < Position(op)
    /\ \A chk \in Checks :
          Failed(chk) =>
              /\ ~Happened("get_openai_client")
              /\ ~Happened("transcriptions.create")
              /\ t_pc = "raised"
              /\ t_raised # <<>>
              /\ t_raised[1].type =
                    IF chk = "is_file" THEN "FileNotFoundError" ELSE "ValueError"
              /\ t_transcript = <<>>

C10_Witness ==
    /\ Failed("model_and_format")
    /\ t_pc = "raised"
    /\ t_raised[1].format = "verbose_json"

\* C11: for an existing file, _ensure_audio accepts it when its extension,
\* compared case-insensitively, is one of mp3, wav, m4a, and rejects it with
\* the unsupported-format error when the extension is another one and the
\* detected MIME type is not in the supported MIME set.
C11_EnsureAudioByExtension ==
    Passed("is_file") =>
        LET path == t_args.file_path
        IN  /\ path.suffix \in {".mp3", ".MP3", ".wav", ".m4a"} => Passed("ext_or_mime")
            /\ (/\ path.suffix \notin {".mp3", ".MP3", ".wav", ".m4a"}
                /\ detect_mime(path) \notin SUPPORTED_MIMES)
                  => /\ Failed("ext_or_mime")
                     /\ t_pc = "raised"
                     /\ t_raised = <<[type |-> "ValueError", mime |-> detect_mime(path),
                                      path |-> path]>>
                     /\ t_transcript = <<>>

C11_Witness ==
    /\ Passed("is_file")
    /\ t_args.file_path.suffix = ".MP3"
    /\ Passed("ext_or_mime")

\* the formats the family of a model allows
AllowedFormats(mdl) ==
    IF Lower(mdl[1]) = "gpt-4o-mini-transcribe" THEN {"json", "text"}
    ELSE IF Lower(mdl[1]) = "whisper" THEN {"text", "json", "verbose_json", "srt", "vtt"}
    ELSE {"json", "text"}

\* C12: _validate_model_and_format accepts a (model, response format) pair
\* exactly when the format is in the allowed set of the model's family:
\* {json, text} for a mini transcription model, {text, json, verbose_json,
\* srt, vtt} for a whisper model, {json, text} for any other model name; every
\* other pair is rejected with the incompatible-format error.
C12_FormatAllowedByFamily ==
    Happened("model_and_format") =>
        /\ Passed("model_and_format")
              <=> t_locals.response_format \in AllowedFormats(t_locals.model)
        /\ Failed("model_and_format")
              => /\ t_pc = "raised"
                 /\ t_raised # <<>>
                 /\ t_raised[1].type = "ValueError"
                 /\ t_raised[1].format = t_locals.response_format

C12_Witness ==
    /\ Passed("model_and_format")
    /\ t_locals.model = <<"whisper", "-1">>
    /\ t_locals.response_format = "verbose_json"

\* C13: every incompatible-format error of _validate_model_and_format, in
\* each of its three model branches and for every rejected format, names the
\* offending model, the offending format and a suggested alternative model.
C13_ErrorNamesAlternativeModel ==
    Failed("model_and_format") =>
        /\ t_raised # <<>>
        /\ t_raised[1].model = t_locals.model
        /\ t_raised[1].format = t_locals.response_format
        /\ t_raised[1].hint # None

\* C14: when the transcription API call itself raises, transcribe_file
\* propagates that exception to its caller unchanged and returns no
\* Transcript; the best-effort normalisation is not applied to a failed call.
C14_ApiErrorPropagates ==
    \A i \in 1..Len(t_trace) :
        (t_trace[i].op = "transcriptions.create" /\ ~t_trace[i].ok)
            => /\ t_pc = "raised"
               /\ t_raised = <<[type |-> t_trace[i].error]>>
               /\ t_result = <<>>
               /\ t_transcript = <<>>

C14_Witness ==
    /\ Failed("transcriptions.create")
    /\ t_pc = "raised"
    /\ t_raised = <<[type |-> "TypeError: must be real number, not str"]>>

(***************************************************************************)
(* Claims about the normalisation of results and the loader.               *)
(***************************************************************************)
\* _process_transcription_result has returned
Normalized == t_pc = "returned" /\ t_result # <<>>

\* a verbose_json response of the SDK was normalized
VerboseNormalized ==
    /\ Normalized
    /\ t_locals.response_format = "verbose_json"
    /\ t_result[1].k = "obj"
    /\ t_result[1].conv = SdkConv
    /\ "text" \in DOMAIN t_result[1].fields
    /\ t_result[1].fields.text.k = "str"

\* the segment entries the response carries (none when it has no list of them)
CarriedSegments ==
    LET f == t_result[1].fields
    IN  IF "segments" \in DOMAIN f /\ f.segments.k = "list" THEN f.segments.items ELSE <<>>

\* the text an entry carries
EntryText(entry) ==
    IF entry.k = "dict" /\ "text" \in DOMAIN entry.d /\ entry.d.text.k = "str"
    THEN entry.d.text
    ELSE PyStr("")

\* C15: for a verbose_json response carrying n >= 1 segment entries, the
\* Transcript has exactly n segments in the same order whatever the entries
\* contain: an entry that fails to parse still yields one segment carrying its
\* text, and neither it nor the other entries are dropped.
C15_EverySegmentKept ==
    (VerboseNormalized /\ CarriedSegments # <<>>) =>
        /\ t_transcript[1].segments # <<>>
        /\ Len(t_transcript[1].segments[1]) = Len(CarriedSegments)
        /\ \A i \in 1..Len(CarriedSegments) :
              t_transcript[1].segments[1][i].text = EntryText(CarriedSegments[i])

\* what the claim says a start or end becomes: <<the number>>, <<>> for
\* missing, or nothing said
ClaimedTimestamp(entry, key) ==
    IF key \notin DOMAIN entry.d THEN [said |-> TRUE, value |-> PyNone]
    ELSE LET v == entry.d[key]
         IN  CASE v.k = "num" -> [said |-> TRUE, value |-> v]
               [] v.k = "str" /\ v.s \in {"0"} -> [said |-> TRUE, value |-> PyNum(0)]
               [] v.k = "str" /\ v.s \in {"2.5", " 2.5 "} -> [said |-> TRUE, value |-> PyNum(25)]
               [] v.k = "str" /\ v.s \in {"", "   ", "none", "NULL", "nan", " NaN "}
                     -> [said |-> TRUE, value |-> PyNone]
               [] OTHER -> [said |-> FALSE]

\* every entry is a mapping whose text is a string
WellFormedEntries ==
    \A i \in 1..Len(CarriedSegments) :
        /\ CarriedSegments[i].k = "dict"
        /\ "text" \in DOMAIN CarriedSegments[i].d
        /\ CarriedSegments[i].d.text.k = "str"

\* C16: for every segment entry of a verbose_json response, start and end
\* given as numbers or numeric-like strings become that number, start or end
\* given as "", "none", "null" or "nan" (in any case, surrounding whitespace
\* ignored) or absent become missing, and the text of the segment is kept.
C16_TimestampsCoerced ==
    (VerboseNormalized /\ CarriedSegments # <<>> /\ WellFormedEntries) =>
        /\ t_transcript[1].segments # <<>>
        /\ Len(t_transcript[1].segments[1]) = Len(CarriedSegments)
        /\ \A i \in 1..Len(CarriedSegments) :
              LET entry == CarriedSegments[i]
                  seg == t_transcript[1].segments[1][i]
              IN  /\ seg.text = entry.d.text
                  /\ ClaimedTimestamp(entry, "start").said
                        => seg.start = ClaimedTimestamp(entry, "start").value
                  /\ ClaimedTimestamp(entry, "end").said
                        => seg.end = ClaimedTimestamp(entry, "end").value

C16_Witness ==
    /\ VerboseNormalized
    /\ CarriedSegments = << Entries(<<PyNum(0)>>, <<PyNum(25)>>, <<PyStr("hi")>>),
                            Entries(<<PyStr("2.5")>>, <<PyStr("nan")>>, <<PyStr("bye")>>) >>
    /\ t_transcript[1].segments # <<>>
    /\ t_transcript[1].segments[1][2].start = PyNum(25)
    /\ t_transcript[1].segments[1][2].end = PyNone
    /\ t_transcript[1].segments[1][2].text = PyStr("bye")

\* C17: for a verbose_json response whose list of segments is empty or
\* absent, the Transcript has segments absent (None), not an empty sequence.
C17_NoSegmentsIsAbsent ==
    (VerboseNormalized /\ CarriedSegments = <<>>) => t_transcript[1].segments = <<>>

C17_Witness ==
    /\ VerboseNormalized
    /\ "segments" \in DOMAIN t_result[1].fields
    /\ t_result[1].fields.segments = PyList(<<>>)
    /\ t_transcript[1].segments = <<>>

\* C18: every Transcript the program produces, by the normalizer after a
\* transcription call or by the loader from a JSON or text file, has segments
\* either absent or a non-empty sequence.
C18_SegmentsAbsentOrNonEmpty ==
    t_transcript # <<>> =>
        \/ t_transcript[1].segments = <<>>
        \/ t_transcript[1].segments[1] # <<>>

\* processing of the result throws: a verbose_json segment entry is no
\* mapping, or the text of the mapping is a number
ProcessingThrows ==
    /\ t_result[1].k = "obj"
    /\ t_result[1].conv = SdkConv
    /\ IF t_locals.response_format = "verbose_json"
       THEN /\ "text" \in DOMAIN t_result[1].fields
            /\ \E i \in 1..Len(CarriedSegments) : CarriedSegments[i].k # "dict"
       ELSE /\ "text" \notin DOMAIN t_result[1].attrs
            /\ "text" \in DOMAIN t_result[1].fields
            /\ t_result[1].fields.text.k = "num"
            /\ t_result[1].fields.text.n # 0

\* C19: _process_transcription_result never raises, and whenever processing
\* of the raw result throws, in any response-format branch including
\* verbose_json, the Transcript it returns has the string representation of
\* the raw result as text, the fallback language and no segments.
C19_DegradedTranscriptShape ==
    /\ t_result # <<>> => t_pc \in {"result", "returned"}
    /\ (Normalized /\ ProcessingThrows) =>
          t_transcript[1] = Transcript(Str(t_result[1]), t_locals.language, <<>>,
                                       t_args.file_path)

\* C20: when the raw result is already a plain mapping, the mapping
\* conversion yields its contents, so in every response-format branch the text
\* of the Transcript is the mapping's `text` entry, and the empty string only
\* when the entry is absent.
C20_PlainMappingText ==
    (/\ Normalized
     /\ t_result[1].k = "dict"
     /\ "text" \in DOMAIN t_result[1].d => t_result[1].d.text.k = "str")
        => t_transcript[1].text = DictGet(t_result[1].d, "text", PyStr(""))

(***************************************************************************)
(* Further claims about summarize_transcript.                              *)
(***************************************************************************)
\* C23: when the primary content parses strictly as JSON and validates as a
\* MeetingSummary, the invocation is over: exactly one chat call is made, no
\* extraction and no retry happen, and the MeetingSummary returned is the
\* validated content, its absent list fields empty and its absent optional
\* fields null.
C23_StrictContentIsTerminal ==
    primary_outcome = "strict" =>
        /\ pc = "returned"
        /\ Len(calls) = 1
        /\ Constrained(calls[1])
        /\ e = None
        /\ summary = [ title |-> None,
                       summary |-> EmbeddedSummaryText(content, 1, Len(content)),
                       key_points |-> <<>>,
                       decisions |-> <<>>,
                       action_items |-> <<>>,
                       insights |-> <<>> ]

C23_Witness ==
    /\ primary_outcome = "strict"
    /\ pc = "returned"
    /\ content = <<"{", "e", "s", "}">>
    /\ summary.summary = <<"o", "k">>

\* C24: every failure of the primary tier (the call raising, content that
\* neither the strict parse nor the brace extraction can parse, parsed
\* content that is no MeetingSummary) leads to exactly one retry call, and
\* the retry call is made in no other circumstance.
C24_RetryExactlyOnPrimaryFailure ==
    /\ [](/\ pc = "retry" <=> (primary_outcome = "failed" /\ Len(calls) = 1)
          /\ Len(calls) = 2 <=> (primary_outcome = "failed" /\ Terminal)
          /\ Len(calls) = 2 => (Constrained(calls[1]) /\ ~Constrained(calls[2]))
          /\ primary_outcome \in {"strict", "embedded"} => (Len(calls) = 1 /\ pc = "returned"))
    /\ [][pc = "retry" => (Len(calls') = 2 /\ ~Constrained(calls'[2]) /\ pc' \in {"returned", "raised"})]_vars

C24_Witness ==
    /\ primary_outcome = "failed"
    /\ Len(calls) = 2
    /\ pc = "returned"
    /\ e = None

\* the retry tier found nothing to parse or validate in the content: lines
\* 123 and 127 find no brace-delimited substring, or lines 124-126 raise
RetryTierFailed(c, r) == re_search_braces(c) = <<>> \/ ~r.ok

\* C25: the content of the retry call goes through the same two parsing steps
\* as the content of the primary call (strict parse of the whole content, then
\* the brace-delimited substring), so that a content has the same outcome in
\* both tiers: the same MeetingSummary, or a parse or validation failure.
C25_RetryParsesLikePrimary ==
    (parse_log # <<>> /\ parse_log[1].primary # <<>> /\ parse_log[1].retry # <<>>) =>
        LET c == parse_log[1].content
            p == parse_log[1].primary[1]
            r == parse_log[1].retry[1]
        IN  IF p.ok
            THEN ~RetryTierFailed(c, r) /\ r.value = p.value
            ELSE RetryTierFailed(c, r)

\* C26: the retry request carries the same model, the same ordered messages
\* (system prompt, user prompt with the extra context), the same temperature
\* and the same token budget as the primary request; the two differ only in
\* the JSON-object response constraint, which the retry request lacks.
C26_RetryRequestSameButUnconstrained ==
    Len(calls) = 2 =>
        /\ DOMAIN calls[1] = DOMAIN calls[2] \cup {"response_format"}
        /\ "response_format" \notin DOMAIN calls[2]
        /\ \A f \in DOMAIN calls[2] : calls[2][f] = calls[1][f]
        /\ calls[1].response_format = [type |-> "json_object"]

C26_Witness ==
    /\ Len(calls) = 2
    /\ args.extra_context = "pauta"
    /\ args.temperature = <<5>>
    /\ calls[2].max_tokens = MaxTokens

(***************************************************************************)
(* Claims about the process-wide caches and the web session.               *)
(***************************************************************************)
\* C27: across the sequential transcription and summarization calls of one
\* process, the API client handle is constructed at most once, by the first
\* call that needs it, every later call gets that same handle, and the
\* settings it was built from are created once and reused.
C27_ClientBuiltOnce ==
    /\ [](client_cache # <<>> =>
            /\ client_cache[1].serial = 1
            /\ settings_instance # <<>>
            /\ client_cache[1].api_key = settings_instance[1].openai_api_key)
    /\ [][client_cache # <<>> => client_cache' = client_cache]_vars
    /\ [][settings_instance # <<>> => settings_instance' = settings_instance]_vars
    /\ [][client_cache' # client_cache => (t_pc = "validated" \/ pc = "idle")]_vars

C27_Witness ==
    /\ client_cache # <<>>
    /\ session_state.transcript # <<>>
    /\ session_state.summary # <<>>
    /\ w_pc = "transcribing"
    /\ t_pc = "client"

\* C28: in the web session, after any sequence of transcribe, generate-summary
\* and clear-session actions, a summary stored in the session state was
\* generated from the transcript currently stored there: a stored summary
\* never outlives the transcript it was derived from.
C28_SummaryOfStoredTranscript ==
    session_state.summary # <<>> =>
        /\ session_state.transcript # <<>>
        /\ summary_of = session_state.transcript

\* a handler is ending on the failure of its call, or has failed to save the upload
HandlerFails ==
    \/ w_pc = "transcribing" /\ t_pc = "raised" /\ w_pc' = "idle"
    \/ w_pc = "summarizing" /\ pc = "raised" /\ w_pc' = "idle"
    \/ w_pc = "idle" /\ w_pc' = "idle" /\ w_message' = "error"

\* C29: in the web session, a transcription or summary generation that fails
\* leaves the session state unchanged (transcript, audio path, summary and
\* processing times keep their values), and the session state is only written
\* after the corresponding call has returned successfully.
C29_FailureLeavesSession ==
    /\ [][HandlerFails => (session_state' = session_state /\ w_message' = "error")]_vars
    /\ [][session_state' # session_state =>
             \/ /\ w_pc = "transcribing" /\ t_pc = "returned"
                /\ session_state'.transcript = t_transcript
                /\ session_state'.audio_path = w_local
                /\ session_state'.summary = session_state.summary
                /\ session_state'.summary_time = session_state.summary_time
             \/ /\ w_pc = "summarizing" /\ pc = "returned"
                /\ session_state'.summary = <<summary>>
                /\ session_state'.transcript = session_state.transcript
                /\ session_state'.audio_path = session_state.audio_path
                /\ session_state'.processing_time = session_state.processing_time
             \/ /\ w_pc = "idle" /\ session_state' = EmptySession
       ]_vars

C29_Witness ==
    /\ w_message = "error"
    /\ w_pc = "idle"
    /\ uploads = 2
    /\ session_state.transcript # <<>>
    /\ session_state.audio_path = <<temp_path(1, ".mp3")>>
    /\ session_state.summary # <<>>

(***************************************************************************)
(* Claims about the persisted transcripts.                                 *)
(***************************************************************************)
\* the loader has answered for the path save_transcript wrote in the format fmt
LoadedWhatWasSaved(fmt) ==
    /\ persist # <<>>
    /\ persist[1].as_format = fmt
    /\ t_pc \in {"returned", "raised"}
    /\ t_args.file_path = persist[1].output_path

\* C21: for every Transcript t, saving t as JSON with save_transcript and
\* loading the file back with _load_transcript_from_path gives a Transcript
\* equal to t field for field: text, language, the segments with their start,
\* end, text and speaker, and source_path.  The file is one the loader reads
\* as JSON, its name ending in .json.
C21_RoundTrip ==
    (LoadedWhatWasSaved("json") /\ Lower(t_args.file_path.suffix) = ".json") =>
        /\ t_pc = "returned"
        /\ t_transcript = <<persist[1].transcript>>

C21_Witness ==
    /\ LoadedWhatWasSaved("json")
    /\ Lower(t_args.file_path.suffix) = ".json"
    /\ t_pc \in {"returned", "raised"}
    /\ persist[1].transcript.segments # <<>>
    /\ Len(persist[1].transcript.segments[1]) = 2
    /\ persist[1].transcript.segments[1][2].speaker = PyStr("Ana")
    /\ persist[1].transcript.segments[1][1].start = PyNum(0)
    /\ persist[1].transcript.source_path # <<>>
    /\ persist[1].transcript.language = "en"

\* C22: loading a plain-text transcript file with _load_transcript_from_path
\* gives a Transcript whose text is the content of the file, whose segments
\* are absent, and whose language is the configured default language,
\* whatever the configuration holds.
C22_TextFileLanguage ==
    (LoadedWhatWasSaved("txt") /\ Lower(t_args.file_path.suffix) = ".txt") =>
        /\ t_pc = "returned"
        /\ t_transcript[1].text = disk[t_args.file_path].raw
        /\ t_transcript[1].segments = <<>>
        /\ t_transcript[1].language = Settings.default_language

(***************************************************************************)
(* Claims about the command line.                                          *)
(***************************************************************************)
\* C30: main returns exit code 2 without invoking any subcommand, hence
\* without any file access or API call, when the API credential is not set;
\* otherwise it returns 0 when the subcommand succeeds and 1 whenever the
\* subcommand raises an exception, so that no exception escapes main.
C30_ExitCodes ==
    /\ [](~has_api_key => (cli.pc \in {"idle", "exited"} /\ t_pc = "idle" /\ pc = "idle"))
    /\ [](cli.pc = "exited" =>
            /\ cli.exit_code \in {0, 1, 2}
            /\ cli.exit_code = 2 <=> ~has_api_key
            /\ cli.exit_code = 1 <=> cli.error # <<>>)
    /\ [][(cli.pc # "exited" /\ cli'.pc = "exited") =>
             IF ~has_api_key
             THEN /\ cli'.exit_code = 2
                  /\ UNCHANGED <<svars, upstream, history, tvars, disk, persist>>
             ELSE /\ (t_pc = "raised" \/ pc = "raised") => cli'.exit_code = 1
                  /\ cli'.exit_code = 0 =>
                        \/ cli.pc = "transcribe" /\ t_pc = "returned"
                        \/ cli.pc = "summarize" /\ pc = "returned"
                  /\ disk' # disk => cli'.exit_code = 0
         ]_vars

C30_Witness ==
    /\ cli.pc = "exited"
    /\ cli.command = "summarize"
    /\ cli.exit_code = 1
    /\ cli.error = <<[type |-> "ValueError: Não foi possível gerar o resumo"]>>
    /\ TranscriptJson \in DOMAIN disk

====
